---- MODULE Spec2Model ----
(***************************************************************************)
(* Model of the persistence layer (dbActions) of the data classification   *)
(* tool: the database type detector, the persistence router, and the       *)
(* PostgreSQL and Oracle adapters acting on one column_classifications     *)
(* table.  A JavaScript string is a sequence of one-character strings, so  *)
(* that toLowerCase, startsWith and includes are computed, not assumed.    *)
(***************************************************************************)
EXTENDS Integers, Sequences, FiniteSets, TLC

(***************************************************************************)
(* Bounds of the model.                                                    *)
(***************************************************************************)
MaxUuid == 1
MaxBatch == 2
MaxNames == 2
MaxPageUuid == 2

(***************************************************************************)
(* JavaScript strings.                                                     *)
(***************************************************************************)
UpperChars == <<"A","B","C","D","E","F","G","H","I","J","K","L","M",
                "N","O","P","Q","R","S","T","U","V","W","X","Y","Z">>
LowerChars == <<"a","b","c","d","e","f","g","h","i","j","k","l","m",
                "n","o","p","q","r","s","t","u","v","w","x","y","z">>

LowerChar(c) ==
  IF \E i \in DOMAIN UpperChars : UpperChars[i] = c
  THEN LowerChars[CHOOSE i \in DOMAIN UpperChars : UpperChars[i] = c]
  ELSE c

toLowerCase(s) == [i \in DOMAIN s |-> LowerChar(s[i])]

startsWith(s, p) ==
  /\ Len(p) <= Len(s)
  /\ \A i \in 1..Len(p) : s[i] = p[i]

includes(s, p) ==
  \E k \in 0..(Len(s) - Len(p)) : \A i \in 1..Len(p) : s[k + i] = p[i]

(***************************************************************************)
(* The literals of the detector.                                           *)
(***************************************************************************)
STR_postgres == <<"p","o","s","t","g","r","e","s">>
STR_oracle == <<"o","r","a","c","l","e",":">>
STR_at == <<"@">>
STR_SID == <<"S","I","D">>
STR_SERVICE_NAME == <<"S","E","R","V","I","C","E","_","N","A","M","E">>
STR_hive == <<"j","d","b","c",":","h","i","v","e","2">>

\* Mutant of detectDbType: without the last return.
detectDbType_noLastReturn(url) ==
  IF Len(url) = 0 THEN "undefined"
  ELSE LET lowerUrl == toLowerCase(url) IN
    IF startsWith(lowerUrl, STR_postgres) THEN "postgres"
    ELSE IF startsWith(lowerUrl, STR_oracle) THEN "oracle"
    ELSE IF startsWith(lowerUrl, STR_hive) THEN "hive"
    ELSE "undefined"

detectDbType(url) ==
  IF Len(url) = 0 THEN "unknown"
  ELSE LET lowerUrl == toLowerCase(url) IN
    IF startsWith(lowerUrl, STR_postgres) THEN "postgres"
    ELSE IF \/ startsWith(lowerUrl, STR_oracle)
            \/ /\ includes(lowerUrl, STR_at)
               /\ \/ includes(lowerUrl, STR_SID)
                  \/ includes(lowerUrl, STR_SERVICE_NAME)
         THEN "oracle"
    ELSE IF startsWith(lowerUrl, STR_hive) THEN "hive"
    ELSE "unknown"

(***************************************************************************)
(* Connection strings the callers pass.                                    *)
(***************************************************************************)
URL_empty == <<>>
URL_pg == <<"p","o","s","t","g","r","e","s",":","/","/","h">>
URL_pg_upper == <<"P","O","S","T","G","R","E","S","Q","L",":","/","/","h">>
URL_ora == <<"o","r","a","c","l","e",":","/","/","u",":","p","@","h","/","s">>
URL_ora_thin == <<"O","r","a","c","l","e",":","t","h","i","n",":","@","h",":","s">>
URL_ora_sid == <<"u","/","p","@","h","/","S","I","D">>
URL_ora_sid_lower == <<"u","/","p","@","h","/","s","i","d">>
URL_ora_service == <<"u","/","p","@","h","/","s","e","r","v","i","c","e","_","n","a","m","e">>
URL_at == <<"u","/","p","@","h","/","x">>
URL_sid == <<"s","i","d">>
URL_hive == <<"j","d","b","c",":","h","i","v","e","2",":","/","/","h">>
URL_hive_upper == <<"J","D","B","C",":","H","I","V","E","2",":","/","/","h">>
URL_mysql == <<"m","y","s","q","l",":","/","/","h">>
URL_not_prefix == <<"x","p","o","s","t","g","r","e","s">>

DataUrls == {URL_pg, URL_ora}
AllUrls == {URL_empty, URL_pg, URL_pg_upper, URL_ora, URL_ora_thin, URL_ora_sid, URL_ora_sid_lower, URL_ora_service, URL_at, URL_sid, URL_hive, URL_hive_upper, URL_mysql, URL_not_prefix}

\* detectDbType over the connection strings of the model, computed once.
DetectTable == [u \in AllUrls |-> detectDbType(u)]
DetectedType(dbUrl) == DetectTable[dbUrl]

(***************************************************************************)
(* Values.  Undefined is a JavaScript property that is absent; NULL is the *)
(* SQL null.  The timestamps created_at and updated_at are left out of the *)
(* rows: no operation reads them.                                          *)
(***************************************************************************)
Undefined == "<undefined>"
NULL == "<NULL>"

Dialects == {"postgres", "oracle"}
ClientIds == {"i1"}
UuidSeq == <<"uuid-1", "uuid-2", "uuid-3", "uuid-4">>
UuidPool == {UuidSeq[i] : i \in 1..MaxUuid}
NameOrder == <<"a", "b">>
Names == {NameOrder[i] : i \in DOMAIN NameOrder}
NameRank(n) == CHOOSE i \in DOMAIN NameOrder : NameOrder[i] = n
FlagNames == <<"pii", "phi", "pfi", "psi", "pci">>
FlagSet == {FlagNames[i] : i \in DOMAIN FlagNames}
BaseColumns == {"id", "column_name", "description", "ndmo_classification",
                "reason_ndmo", "pii", "phi", "pfi", "psi"}
AllColumns == BaseColumns \cup {"pci"}

\* ColumnData of lib/types.ts: f is the vector of the five flags.
Col(id, name, desc, ndmo, reason, f) ==
  [id |-> id, columnName |-> name, description |-> desc,
   ndmoClassification |-> ndmo, reason_ndmo |-> reason,
   pii |-> f[1], phi |-> f[2], pfi |-> f[3], psi |-> f[4], pci |-> f[5]]

\* Reading a property of a JavaScript object: an absent key reads undefined.
JsGet(obj, key) == IF key \in DOMAIN obj THEN obj[key] ELSE Undefined

(***************************************************************************)
(* The table column_classifications as the database engine holds it.       *)
(***************************************************************************)
NoTable ==
  [exists |-> FALSE, columns |-> {}, defaults |-> <<>>, uniqueName |-> FALSE,
   trigger |-> FALSE, rows |-> {}]

RowIds(rows) == {r.id : r \in rows}

\* INSERT INTO column_classifications (...) VALUES (...): the error the engine
\* raises for the row, "none" when the row is accepted.
\* Mutant of SqlInsertError: the table has no primary key.
SqlInsertError_noPrimaryKey(t, row) ==
  IF ~t.exists THEN "relation does not exist"
  ELSE IF ~(DOMAIN row \subseteq t.columns) THEN "column does not exist"
  ELSE IF row.id = NULL \/ row.column_name = NULL THEN "null value in column"
  ELSE IF t.uniqueName /\ \E r \in t.rows : r.column_name = row.column_name
       THEN "duplicate key"
  ELSE "none"

SqlInsertError(t, row) ==
  IF ~t.exists THEN "relation does not exist"
  ELSE IF ~(DOMAIN row \subseteq t.columns) THEN "column does not exist"
  ELSE IF row.id = NULL \/ row.column_name = NULL THEN "null value in column"
  ELSE IF row.id \in RowIds(t.rows) THEN "duplicate key"
  ELSE IF t.uniqueName /\ \E r \in t.rows : r.column_name = row.column_name
       THEN "duplicate key"
  ELSE "none"

\* Mutant of SqlInsert: the new row takes the place of the rows of its name.
SqlInsert_replacesName(t, row) ==
  IF SqlInsertError(t, row) = "none"
  THEN [t EXCEPT !.rows = {r \in @ : r.column_name # row.column_name}
                            \cup {row}]
  ELSE t

SqlInsert(t, row) ==
  IF SqlInsertError(t, row) = "none"
  THEN [t EXCEPT !.rows = @ \cup {row}]
  ELSE t

\* UPDATE column_classifications SET ... WHERE id = ...: set holds the new
\* values of the columns the statement assigns.
SqlUpdateError(t, set) ==
  IF ~t.exists THEN "relation does not exist"
  ELSE IF ~(DOMAIN set \subseteq t.columns) THEN "column does not exist"
  ELSE "none"

SqlUpdate(t, id, set) ==
  [t EXCEPT !.rows =
     {IF r.id = id
      THEN [k \in DOMAIN r |-> IF k \in DOMAIN set THEN set[k] ELSE r[k]]
      ELSE r : r \in @}]

SqlDelete(t, id) == [t EXCEPT !.rows = {r \in @ : r.id # id}]

\* Mutant of SqlTruncate: one row survives.
SqlTruncate_keepsOneRow(t) ==
  IF t.rows = {} THEN t
  ELSE [t EXCEPT !.rows = {CHOOSE r \in t.rows : TRUE}]

SqlTruncate(t) == [t EXCEPT !.rows = {}]

\* ALTER TABLE ... ADD pci ... DEFAULT d: the rows that exist take the default.
SqlAddPci(t, d) ==
  [t EXCEPT !.columns = @ \cup {"pci"},
            !.defaults = [k \in DOMAIN @ \cup {"pci"} |->
                            IF k = "pci" THEN d ELSE @[k]],
            !.rows = {[k \in DOMAIN r \cup {"pci"} |->
                         IF k = "pci" THEN d ELSE r[k]] : r \in @}]

\* CREATE TABLE column_classifications with every flag defaulting to d.
SqlCreateTable(d) ==
  [exists |-> TRUE, columns |-> AllColumns,
   defaults |-> [k \in FlagSet |-> d], uniqueName |-> FALSE,
   trigger |-> FALSE, rows |-> {}]

\* ORDER BY column_name ASC: the orders the engine may return the rows in
\* (rows of equal name come in either order).
RECURSIVE Orders(_)
Orders(rows) ==
  IF rows = {} THEN {<<>>}
  ELSE LET least == {r \in rows : \A q \in rows :
                       NameRank(r.column_name) <= NameRank(q.column_name)}
       IN UNION {{<<r>> \o rest : rest \in Orders(rows \ {r})} : r \in least}

\* crypto.randomUUID(): an id no row and no client uses.
FreshIds(taken) == UuidPool \ taken
randomUUID(taken) == CHOOSE u \in FreshIds(taken) : TRUE

Result(success, message, data) ==
  [success |-> success, message |-> message, data |-> data]
Outcome(t, res, io) == [table |-> t, res |-> res, io |-> io]
(***************************************************************************)
(* PostgreSQL adapter.  engine is the database that answers at the URL: a  *)
(* connection succeeds when it is a PostgreSQL server.  A message is the   *)
(* sequence of its words.                                                  *)
(***************************************************************************)
\* node-postgres sends an undefined parameter as NULL.
pgParam(v) == IF v = Undefined THEN NULL ELSE v

pgBool(b) == b

\* column.id || crypto.randomUUID()
idOrRandom(column, taken) ==
  IF column.id = Undefined THEN randomUUID(taken) ELSE column.id

pgValues(column, columnId) ==
  [id |-> columnId, column_name |-> pgParam(column.columnName),
   description |-> pgParam(column.description),
   ndmo_classification |-> pgParam(column.ndmoClassification),
   reason_ndmo |-> pgParam(column.reason_ndmo),
   pii |-> pgBool(column.pii), phi |-> pgBool(column.phi),
   pfi |-> pgBool(column.pfi), psi |-> pgBool(column.psi),
   pci |-> pgBool(column.pci)]

\* { ...res.rows[0], columnName: res.rows[0].column_name }
pgReturned(row) ==
  [k \in DOMAIN row \cup {"columnName"} |->
     IF k = "columnName" THEN row.column_name ELSE row[k]]

\* Mutant of createColumnTableForPostgres: the constraint is not dropped.
createColumnTableForPostgres_keepsConstraint(t) ==
  LET created == IF t.exists THEN t ELSE SqlCreateTable(FALSE)
      withPci == IF "pci" \in created.columns THEN created
                 ELSE SqlAddPci(created, FALSE)
      final == [withPci EXCEPT !.trigger = TRUE]
  IN Outcome(final,
             Result(TRUE, <<"PostgreSQL", "table", "checked/created",
                            "successfully.">>, <<>>), 0)

\* Mutant of createColumnTableForPostgres: ADD COLUMN pci without IF NOT
\* EXISTS, which the engine rejects once the column is there.
createColumnTableForPostgres_addsPciAgain(t) ==
  LET created == IF t.exists THEN t ELSE SqlCreateTable(FALSE)
      dropped == [created EXCEPT !.uniqueName = FALSE]
  IN IF "pci" \in dropped.columns
     THEN Outcome(dropped,
                  Result(FALSE, <<"Failed", "to", "create", "PostgreSQL",
                                  "table.">>, <<>>), 0)
     ELSE Outcome([SqlAddPci(dropped, FALSE) EXCEPT !.trigger = TRUE],
                  Result(TRUE, <<"PostgreSQL", "table", "checked/created",
                                 "successfully.">>, <<>>), 0)

createColumnTableForPostgres(t) ==
  LET created == IF t.exists THEN t ELSE SqlCreateTable(FALSE)
      dropped == [created EXCEPT !.uniqueName = FALSE]
      withPci == IF "pci" \in dropped.columns THEN dropped
                 ELSE SqlAddPci(dropped, FALSE)
      final == [withPci EXCEPT !.trigger = TRUE]
  IN Outcome(final,
             Result(TRUE, <<"PostgreSQL", "table", "checked/created",
                            "successfully.">>, <<>>), 0)

testPostgresConnection(engine, t) ==
  IF engine # "postgres"
  THEN Outcome(t, Result(FALSE, <<"PostgreSQL", "connection", "failed:">>, <<>>), 1)
  ELSE LET made == createColumnTableForPostgres(t) IN
    IF ~made.res.success
    THEN Outcome(made.table,
                 Result(FALSE, <<"PostgreSQL", "connected,", "but", "failed",
                                 "to", "create", "table:">>, <<>>), 1)
    ELSE Outcome(made.table,
                 Result(TRUE, <<"Successfully", "connected", "to",
                                "PostgreSQL.", "Table",
                                "'column_classifications'", "is", "ready.">>,
                        <<>>), 1)

pgFetchRow(row) ==
  [id |-> row.id, columnName |-> row.column_name,
   description |-> IF row.description = NULL THEN "" ELSE row.description,
   ndmoClassification |-> row.ndmo_classification,
   reason_ndmo |-> row.reason_ndmo,
   pii |-> row.pii, phi |-> row.phi, pfi |-> row.pfi, psi |-> row.psi,
   pci |-> row.pci]

\* order is the order the engine returns the rows in.
fetchPostgresColumns(engine, t, order) ==
  IF engine # "postgres" \/ ~t.exists \/ ~(AllColumns \subseteq t.columns)
  THEN Outcome(t, Result(FALSE, <<"Failed", "to", "fetch", "columns", "from",
                                  "PostgreSQL.">>, <<>>), 1)
  ELSE Outcome(t, Result(TRUE, <<>>,
                         [i \in DOMAIN order |-> pgFetchRow(order[i])]), 1)

insertPostgresColumn(engine, t, column) ==
  LET columnId == idOrRandom(column, RowIds(t.rows))
      row == pgValues(column, columnId)
      err == IF engine # "postgres" THEN "connect" ELSE SqlInsertError(t, row)
  IN IF err = "none"
     THEN Outcome(SqlInsert(t, row),
                  Result(TRUE, <<"Column", "inserted", "successfully.">>,
                         <<pgReturned(row)>>), 1)
     ELSE IF err = "duplicate key"
     THEN Outcome(t, Result(FALSE, <<"Column", column.columnName, "already",
                                     "exists.">>, <<>>), 1)
     ELSE Outcome(t, Result(FALSE, <<"Failed", "to", "insert", "column.">>,
                            <<>>), 1)

\* Mutant of pgRollback: the rows are inserted outside a transaction, so
\* the rows accepted before the failure stay.
pgRollback_noTransaction(before, work) == work

\* ROLLBACK and COMMIT of the transaction BEGIN opened: before is the table
\* at BEGIN, work the table as the transaction sees it.
pgRollback(before, work) == before
pgCommit(before, work) == work

\* The loop over the batch inside the transaction: it stops at the first
\* row the engine rejects.
RECURSIVE pgBatchLoop(_, _)
pgBatchLoop(work, columns) ==
  IF columns = <<>> THEN [err |-> "none", table |-> work]
  ELSE LET column == Head(columns)
           row == pgValues(column, idOrRandom(column, RowIds(work.rows)))
           err == SqlInsertError(work, row)
       IN IF err # "none" THEN [err |-> err, table |-> work]
          ELSE pgBatchLoop(SqlInsert(work, row), Tail(columns))

batchInsertPostgresColumns(engine, t, columns) ==
  IF engine # "postgres"
  THEN Outcome(t, Result(FALSE, <<"Batch", "insert", "transaction", "failed",
                                  "and", "was", "rolled", "back.">>, <<>>), 1)
  ELSE LET run == pgBatchLoop(t, columns) IN
    IF run.err = "none"
    THEN Outcome(pgCommit(t, run.table),
                 Result(TRUE, <<"Batch", "insert", "completed",
                                "successfully.">>, <<>>), 1)
    ELSE Outcome(pgRollback(t, run.table),
                 Result(FALSE, <<"Batch", "insert", "transaction", "failed",
                                 "and", "was", "rolled", "back.">>, <<>>), 1)

pgUpdateSet(column) ==
  [description |-> pgParam(column.description),
   ndmo_classification |-> pgParam(column.ndmoClassification),
   reason_ndmo |-> pgParam(column.reason_ndmo),
   pii |-> pgBool(column.pii), phi |-> pgBool(column.phi),
   pfi |-> pgBool(column.pfi), psi |-> pgBool(column.psi),
   pci |-> pgBool(column.pci)]

updatePostgresColumn(engine, t, column) ==
  LET set == pgUpdateSet(column)
      err == IF engine # "postgres" THEN "connect" ELSE SqlUpdateError(t, set)
      after == SqlUpdate(t, column.id, set)
  IN IF err # "none"
     THEN Outcome(t, Result(FALSE, <<"Failed", "to", "update", "column.">>,
                            <<>>), 1)
     ELSE IF ~(column.id \in RowIds(t.rows))
     THEN Outcome(t, Result(FALSE, <<"Column", "not", "found", "for",
                                     "update.">>, <<>>), 1)
     ELSE Outcome(after,
                  Result(TRUE, <<"Column", "updated.">>,
                         <<pgReturned(CHOOSE r \in after.rows :
                                        r.id = column.id)>>), 1)

deletePostgresColumn(engine, t, id) ==
  IF engine # "postgres" \/ ~t.exists
  THEN Outcome(t, Result(FALSE, <<"Failed", "to", "delete", "column.">>,
                         <<>>), 1)
  ELSE IF ~(id \in RowIds(t.rows))
  THEN Outcome(t, Result(FALSE, <<"Column", "not", "found", "for",
                                  "deletion.">>, <<>>), 1)
  ELSE Outcome(SqlDelete(t, id), Result(TRUE, <<"Column", "deleted.">>, <<>>), 1)

deleteAllPostgresColumns(engine, t) ==
  IF engine # "postgres" \/ ~t.exists
  THEN Outcome(t, Result(FALSE, <<"Failed", "to", "delete", "all",
                                  "columns.">>, <<>>), 1)
  ELSE Outcome(SqlTruncate(t), Result(TRUE, <<"All", "columns", "deleted.">>,
                                      <<>>), 1)
(***************************************************************************)
(* Oracle adapter.  Oracle holds the flags as NUMBER(1) and the empty      *)
(* string as NULL.  A statement with named placeholders is executed only   *)
(* when the bind object names exactly the placeholders of the statement.   *)
(***************************************************************************)
\* parseOracleUrl returns connection attributes or throws "Invalid Oracle URL
\* format": TRUE stands for attributes.  The comparison with "oracle://" is
\* of the string as given, not lower-cased.
STR_oracle_slashes == <<"o","r","a","c","l","e",":","/","/">>
STR_slash == <<"/">>

parseOracleUrl(dbUrl) ==
  IF startsWith(dbUrl, STR_oracle_slashes) THEN TRUE
  ELSE IF includes(dbUrl, STR_at) /\ includes(dbUrl, STR_slash) THEN TRUE
  ELSE FALSE

ParseTable == [u \in AllUrls |-> parseOracleUrl(u)]

\* What getOracleConnection(dbUrl) reaches: the engine behind the connection
\* string, or nothing when parseOracleUrl throws.  Every Oracle operation
\* calls it first, inside its try block.
InvalidUrl == "<invalid url>"
getOracleConnection(engine, dbUrl) ==
  IF ParseTable[dbUrl] THEN engine ELSE InvalidUrl

oraFlag(b) == IF b THEN 1 ELSE 0
oraBool(n) == n = 1

\* An undefined or empty bind value is stored as NULL.
oraParam(v) == IF v = Undefined \/ v = "" THEN NULL ELSE v

\* The keys of { ...column }: the properties the object has.
KeysOf(column) ==
  {k \in DOMAIN column \ FlagSet : column[k] # Undefined} \cup FlagSet

\* Mutant of mapOracleRowToColumnData: pci is read from the PSI column.
mapOracleRowToColumnData_pciFromPsi(row) ==
  [id |-> row.id, columnName |-> row.column_name,
   description |-> IF row.description = NULL THEN "" ELSE row.description,
   ndmoClassification |-> row.ndmo_classification,
   reason_ndmo |-> row.reason_ndmo,
   pii |-> oraBool(row.pii), phi |-> oraBool(row.phi),
   pfi |-> oraBool(row.pfi), psi |-> oraBool(row.psi),
   pci |-> oraBool(row.psi)]

mapOracleRowToColumnData(row) ==
  [id |-> row.id, columnName |-> row.column_name,
   description |-> IF row.description = NULL THEN "" ELSE row.description,
   ndmoClassification |-> row.ndmo_classification,
   reason_ndmo |-> row.reason_ndmo,
   pii |-> oraBool(row.pii), phi |-> oraBool(row.phi),
   pfi |-> oraBool(row.pfi), psi |-> oraBool(row.psi),
   pci |-> IF "pci" \in DOMAIN row THEN oraBool(row.pci) ELSE FALSE]

oraValues(column, columnId) ==
  [id |-> columnId, column_name |-> oraParam(column.columnName),
   description |-> oraParam(column.description),
   ndmo_classification |-> oraParam(column.ndmoClassification),
   reason_ndmo |-> oraParam(column.reason_ndmo),
   pii |-> oraFlag(column.pii), phi |-> oraFlag(column.phi),
   pfi |-> oraFlag(column.pfi), psi |-> oraFlag(column.psi),
   pci |-> oraFlag(column.pci)]

createColumnTableForOracle(t) ==
  LET final ==
        IF ~t.exists
        THEN [SqlCreateTable(0) EXCEPT !.trigger = TRUE]
        ELSE LET dropped == [t EXCEPT !.uniqueName = FALSE]
                 COUNT == IF "pci" \in dropped.columns THEN 1 ELSE 0
             IN IF COUNT = 0 THEN SqlAddPci(dropped, 0) ELSE dropped
  IN Outcome(final,
             Result(TRUE, <<"Oracle", "table", "checked/created",
                            "successfully.">>, <<>>), 0)

testOracleConnection(engine, t) ==
  IF engine # "oracle"
  THEN Outcome(t, Result(FALSE, <<"Oracle", "connection", "failed:">>, <<>>), 1)
  ELSE LET made == createColumnTableForOracle(t) IN
    IF ~made.res.success
    THEN Outcome(made.table,
                 Result(FALSE, <<"Oracle", "connected,", "but", "failed", "to",
                                 "create", "table:">>, <<>>), 1)
    ELSE Outcome(made.table,
                 Result(TRUE, <<"Successfully", "connected", "to", "Oracle.",
                                "Table", "'COLUMN_CLASSIFICATIONS'", "is",
                                "ready.">>, <<>>), 1)

fetchOracleColumns(engine, t, order) ==
  IF engine # "oracle" \/ ~t.exists
  THEN Outcome(t, Result(FALSE, <<"Failed", "to", "fetch", "columns", "from",
                                  "Oracle.">>, <<>>), 1)
  ELSE Outcome(t, Result(TRUE, <<>>,
                         [i \in DOMAIN order |->
                            mapOracleRowToColumnData(order[i])]), 1)

oraInsertPlaceholders ==
  {"id", "columnName", "description", "ndmoClassification", "reason_ndmo",
   "pii", "phi", "pfi", "psi", "pci"}

insertOracleColumn(engine, t, column) ==
  LET columnId == idOrRandom(column, RowIds(t.rows))
      bindKeys == {"id"} \cup KeysOf(column)
      row == oraValues(column, columnId)
      err == IF engine # "oracle" THEN "connect"
             ELSE IF bindKeys # oraInsertPlaceholders THEN "bind"
             ELSE SqlInsertError(t, row)
  IN IF err = "none"
     THEN Outcome(SqlInsert(t, row),
                  Result(TRUE, <<"Column", "inserted", "into", "Oracle.">>,
                         <<[column EXCEPT !.id = columnId]>>), 1)
     ELSE IF err = "duplicate key"
     THEN Outcome(t, Result(FALSE, <<"Column", column.columnName, "already",
                                     "exists.">>, <<>>), 1)
     ELSE Outcome(t, Result(FALSE, <<"Failed", "to", "insert", "column",
                                     "into", "Oracle.">>, <<>>), 1)

\* executeMany with autoCommit: the rows are executed in order and the first
\* rejected row raises; nothing is committed then, and closing the
\* connection rolls the pending rows back.
RECURSIVE oraBatchLoop(_, _)
oraBatchLoop(work, columns) ==
  IF columns = <<>> THEN [err |-> "none", table |-> work]
  ELSE LET column == Head(columns)
           row == oraValues(column, idOrRandom(column, RowIds(work.rows)))
           err == SqlInsertError(work, row)
       IN IF err # "none" THEN [err |-> err, table |-> work]
          ELSE oraBatchLoop(SqlInsert(work, row), Tail(columns))

oraCloseUncommitted(before, work) == before

batchInsertOracleColumns(engine, t, columns) ==
  IF engine # "oracle"
  THEN Outcome(t, Result(FALSE, <<"Oracle", "batch", "insert", "failed.">>,
                         <<>>), 1)
  ELSE LET run == oraBatchLoop(t, columns) IN
    IF run.err = "none"
    THEN Outcome(run.table,
                 Result(TRUE, <<"Oracle", "batch", "insert", "completed.">>,
                        <<>>), 1)
    ELSE Outcome(oraCloseUncommitted(t, run.table),
                 Result(FALSE, <<"Oracle", "batch", "insert", "failed.">>,
                        <<>>), 1)

\* The SET clause of the UPDATE statement, item by item as it is written.
oraUpdateSetClause ==
  << <<"description", "=", ":description">>,
     <<"ndmo_classification", "=", ":ndmoClassification">>,
     <<"reason_ndmo", ":reason_ndmo">>,
     <<"pii", "=", ":pii">>, <<"phi", "=", ":phi">>, <<"pfi", "=", ":pfi">>,
     <<"psi", "=", ":psi">>, <<"pci", "=", ":pci">> >>

\* A SET clause parses when every item is column = :placeholder.
SqlSetClauseParses(clause) ==
  \A i \in DOMAIN clause : Len(clause[i]) = 3 /\ clause[i][2] = "="

oraUpdatePlaceholders ==
  {"id", "description", "ndmoClassification", "reason_ndmo",
   "pii", "phi", "pfi", "psi", "pci"}

oraUpdateSet(column) ==
  [description |-> oraParam(column.description),
   ndmo_classification |-> oraParam(column.ndmoClassification),
   reason_ndmo |-> oraParam(column.reason_ndmo),
   pii |-> oraFlag(column.pii), phi |-> oraFlag(column.phi),
   pfi |-> oraFlag(column.pfi), psi |-> oraFlag(column.psi),
   pci |-> oraFlag(column.pci)]

updateOracleColumn(engine, t, column) ==
  LET set == oraUpdateSet(column)
      bindKeys == KeysOf(column)
      err == IF engine # "oracle" THEN "connect"
             ELSE IF ~SqlSetClauseParses(oraUpdateSetClause) THEN "syntax"
             ELSE IF bindKeys # oraUpdatePlaceholders THEN "bind"
             ELSE SqlUpdateError(t, set)
  IN IF err # "none"
     THEN Outcome(t, Result(FALSE, <<"Failed", "to", "update", "column", "in",
                                     "Oracle.">>, <<>>), 1)
     ELSE IF ~(column.id \in RowIds(t.rows))
     THEN Outcome(t, Result(FALSE, <<"Column", "not", "found", "in", "Oracle",
                                     "for", "update.">>, <<>>), 1)
     ELSE Outcome(SqlUpdate(t, column.id, set),
                  Result(TRUE, <<"Column", "updated", "in", "Oracle.">>,
                         <<column>>), 1)

deleteOracleColumn(engine, t, id) ==
  IF engine # "oracle" \/ ~t.exists
  THEN Outcome(t, Result(FALSE, <<"Failed", "to", "delete", "column", "from",
                                  "Oracle.">>, <<>>), 1)
  ELSE IF ~(id \in RowIds(t.rows))
  THEN Outcome(t, Result(FALSE, <<"Column", "not", "found", "in", "Oracle",
                                  "for", "deletion.">>, <<>>), 1)
  ELSE Outcome(SqlDelete(t, id),
               Result(TRUE, <<"Column", "deleted", "from", "Oracle.">>, <<>>), 1)

deleteAllOracleColumns(engine, t) ==
  IF engine # "oracle" \/ ~t.exists
  THEN Outcome(t, Result(FALSE, <<"Failed", "to", "delete", "all", "columns",
                                  "from", "Oracle.">>, <<>>), 1)
  ELSE Outcome(SqlTruncate(t),
               Result(TRUE, <<"All", "columns", "deleted", "from", "Oracle.">>,
                      <<>>), 1)
(***************************************************************************)
(* Persistence router.                                                     *)
(***************************************************************************)
DbTypes == {"postgres", "oracle", "hive", "unknown"}

NotSupported(what, dbType) ==
  what \o <<"not", "supported", "for", "database", "type:", dbType>>

testConnectionLogic(engine, t, dbUrl, dbType) ==
  IF Len(dbUrl) = 0
  THEN Outcome(t, Result(FALSE, <<"Database", "URL", "is", "required.">>,
                         <<>>), 0)
  ELSE IF dbType = "postgres" THEN testPostgresConnection(engine, t)
  ELSE IF dbType = "oracle" THEN testOracleConnection(getOracleConnection(engine, dbUrl), t)
  ELSE IF dbType = "hive"
  THEN Outcome(t, Result(FALSE, <<"Connection", "to", "Hive", "is", "not",
                                  "fully", "implemented.">>, <<>>), 0)
  ELSE Outcome(t, Result(FALSE, <<"Unknown", "or", "unsupported", "database",
                                  "type:", dbType>>, <<>>), 0)

fetchColumnDataLogic(engine, t, dbUrl, order) ==
  LET dbType == DetectedType(dbUrl) IN
  IF dbType = "postgres" THEN fetchPostgresColumns(engine, t, order)
  ELSE IF dbType = "oracle" THEN fetchOracleColumns(getOracleConnection(engine, dbUrl), t, order)
  ELSE Outcome(t, Result(FALSE, NotSupported(<<"Fetching", "data", "is">>,
                                             dbType), <<>>), 0)

\* Mutant of insertColumnDataLogic: hive is sent to the PostgreSQL adapter.
insertColumnDataLogic_hiveToPostgres(engine, t, dbUrl, column) ==
  LET dbType == DetectedType(dbUrl) IN
  IF dbType \in {"postgres", "hive"} THEN insertPostgresColumn(engine, t, column)
  ELSE IF dbType = "oracle" THEN insertOracleColumn(getOracleConnection(engine, dbUrl), t, column)
  ELSE Outcome(t, Result(FALSE, NotSupported(<<"Inserting", "data", "is">>,
                                             dbType), <<>>), 0)

insertColumnDataLogic(engine, t, dbUrl, column) ==
  LET dbType == DetectedType(dbUrl) IN
  IF dbType = "postgres" THEN insertPostgresColumn(engine, t, column)
  ELSE IF dbType = "oracle" THEN insertOracleColumn(getOracleConnection(engine, dbUrl), t, column)
  ELSE Outcome(t, Result(FALSE, NotSupported(<<"Inserting", "data", "is">>,
                                             dbType), <<>>), 0)

batchInsertColumnDataLogic(engine, t, dbUrl, columns) ==
  LET dbType == DetectedType(dbUrl) IN
  IF dbType = "postgres" THEN batchInsertPostgresColumns(engine, t, columns)
  ELSE IF dbType = "oracle" THEN batchInsertOracleColumns(getOracleConnection(engine, dbUrl), t, columns)
  ELSE Outcome(t, Result(FALSE, NotSupported(<<"Batch", "operations", "are">>,
                                             dbType), <<>>), 0)

updateColumnDataLogic(engine, t, dbUrl, column) ==
  LET dbType == DetectedType(dbUrl) IN
  IF dbType = "postgres" THEN updatePostgresColumn(engine, t, column)
  ELSE IF dbType = "oracle" THEN updateOracleColumn(getOracleConnection(engine, dbUrl), t, column)
  ELSE Outcome(t, Result(FALSE, NotSupported(<<"Updating", "data", "is">>,
                                             dbType), <<>>), 0)

deleteColumnDataLogic(engine, t, dbUrl, id) ==
  LET dbType == DetectedType(dbUrl) IN
  IF dbType = "postgres" THEN deletePostgresColumn(engine, t, id)
  ELSE IF dbType = "oracle" THEN deleteOracleColumn(getOracleConnection(engine, dbUrl), t, id)
  ELSE Outcome(t, Result(FALSE, NotSupported(<<"Deleting", "data", "is">>,
                                             dbType), <<>>), 0)

deleteAllColumnsLogic(engine, t, dbUrl) ==
  LET dbType == DetectedType(dbUrl) IN
  IF dbType = "postgres" THEN deleteAllPostgresColumns(engine, t)
  ELSE IF dbType = "oracle" THEN deleteAllOracleColumns(getOracleConnection(engine, dbUrl), t)
  ELSE Outcome(t, Result(FALSE, NotSupported(<<"Deleting", "all", "data",
                                               "is">>, dbType), <<>>), 0)

(***************************************************************************)
(* Failures of the database connection during one call of the router:      *)
(*   connect   the database cannot be reached;                             *)
(*   lost      the connection drops once it is made, so every statement,   *)
(*             ROLLBACK included, fails;                                   *)
(*   rollback  the connection drops after the batch row that fails, so     *)
(*             ROLLBACK fails;                                             *)
(*   close     closing the pool or the connection fails.                   *)
(* An operation holds handles: the pool and, where it calls pool.connect,  *)
(* a client (PostgreSQL); the connection (Oracle).                         *)
(***************************************************************************)
Faults == {"none", "connect", "lost", "rollback", "close"}
Down == "<unreachable>"
Reach(engine, fault) == IF fault \in {"connect", "lost"} THEN Down ELSE engine

PoolClientOps == {"test", "batch"}

\* new Pool(...) always yields a pool; pool.connect() yields a client when
\* the database answers.
pgOpened(op, engine, fault) ==
  {"pool"} \cup (IF op \in PoolClientOps /\ engine = "postgres"
                    /\ fault # "connect"
                 THEN {"client"} ELSE {})

\* How the try statement of an operation ends: its try block returns, its
\* catch block returns, or its catch block rejects.
Paths == {"returned", "caught", "rejected"}

\* Mutant of pgFinally: the handles are released at the end of the try
\* block only.
pgFinally_inTryBlock(opened, path) ==
  IF path = "returned" THEN opened ELSE {}

\* finally { client?.release(); if (pool) await pool.end().catch(...) }: the
\* handles release, end or close is called on, however the statement ends.
pgFinally(opened, path) == opened

oraOpened(engine, dbUrl, fault) ==
  IF getOracleConnection(engine, dbUrl) = "oracle" /\ fault # "connect"
  THEN {"connection"} ELSE {}

\* finally { if (connection) await connection.close(); }
oraFinally(opened, path) == opened

\* The catch block of the PostgreSQL batch awaits ROLLBACK when there is a
\* client: a ROLLBACK that fails rejects the call.  failed: a statement of
\* the try block failed.
pgThrows(op, opened, fault, failed) ==
  /\ op = "batch"
  /\ "client" \in opened
  /\ \/ fault = "lost"
     \/ fault = "rollback" /\ failed

\* pool.end() has a catch of its own; connection.close() in the finally
\* block of an Oracle operation has none.
oraThrows(opened, fault) == "connection" \in opened /\ fault = "close"

\* createColumnTableFor... catches the failure of its statements and
\* returns success false, which test-connection reports.
TableNotCreated(dbType) ==
  IF dbType = "postgres"
  THEN Result(FALSE, <<"PostgreSQL", "connected,", "but", "failed", "to",
                       "create", "table:">>, <<>>)
  ELSE Result(FALSE, <<"Oracle", "connected,", "but", "failed", "to",
                       "create", "table:">>, <<>>)

\* A call that rejects hands its caller no result.
Thrown == Result(FALSE, <<"<thrown>">>, <<>>)

\* What a call of the router under a fault leaves: out is the outcome of
\* the router against Reach(engine, fault).
UnderFault(op, dbType, engine, dbUrl, fault, out) ==
  LET opened == IF dbType = "postgres" THEN pgOpened(op, engine, fault)
                ELSE IF dbType = "oracle"
                THEN oraOpened(engine, dbUrl, fault)
                ELSE {}
      rejected == dbType = "postgres"
                    /\ pgThrows(op, opened, fault, ~out.res.success)
      path == IF rejected THEN "rejected"
              ELSE IF out.res.success THEN "returned"
              ELSE "caught"
      closed == IF dbType = "postgres" THEN pgFinally(opened, path)
                ELSE IF dbType = "oracle" THEN oraFinally(opened, path)
                ELSE {}
      threw == \/ rejected
               \/ dbType = "oracle" /\ oraThrows(closed, fault)
      res == IF threw THEN Thrown
             ELSE IF op = "test" /\ fault = "lost" /\ opened \ {"pool"} # {}
             THEN TableNotCreated(dbType)
             ELSE out.res
  IN [table |-> out.table, res |-> res, io |-> out.io, fault |-> fault,
      opened |-> opened, closed |-> closed, threw |-> threw, path |-> path]

(***************************************************************************)
(* Column records the callers pass.                                        *)
(***************************************************************************)
FlagVectors == [1..5 -> BOOLEAN]
NoFlags == [i \in 1..5 |-> FALSE]
SomeFlags == [i \in 1..5 |-> i \in {1, 3, 5}]

\* Two contents of a record: every field filled, and only the name filled.
Filled(id, name) == Col(id, name, "d", "Secret", "r", SomeFlags)
Bare(id, name) == Col(id, name, "", Undefined, Undefined, NoFlags)

InsertColumns ==
  {Filled(id, n) : id \in ClientIds \cup {Undefined}, n \in Names}
  \cup {Bare(id, n) : id \in ClientIds \cup {Undefined}, n \in Names}
  \cup {Filled("i1", Undefined), Col("i1", "a", "d", "Public", Undefined, NoFlags)}

UpdateColumns ==
  {Filled(id, n) : id \in ClientIds \cup UuidPool, n \in {"b", Undefined}}
  \cup {Bare(id, "a") : id \in ClientIds \cup UuidPool}

BatchColumns ==
  {Filled("i1", "a"), Bare(Undefined, "b"), Filled(Undefined, Undefined)}

RECURSIVE SeqsUpTo(_, _)
SeqsUpTo(S, n) ==
  IF n = 0 THEN {<<>>}
  ELSE LET shorter == SeqsUpTo(S, n - 1)
       IN shorter \cup {Append(q, x) : q \in shorter, x \in S}

Batches == SeqsUpTo(BatchColumns, MaxBatch)

(***************************************************************************)
(* Tables the program may find: none, one an older version left (with or   *)
(* without the uniqueness constraint on column_name, with or without the   *)
(* pci column), or the current one.                                        *)
(***************************************************************************)
SeedRow(engine, columns) ==
  LET full == IF engine = "postgres"
              THEN pgValues(Col("i1", "a", "d", "Secret", "r", SomeFlags), "i1")
              ELSE oraValues(Col("i1", "a", "d", "Secret", "r", SomeFlags), "i1")
  IN [k \in columns |-> full[k]]

LegacyTable(engine, cols, u, rows) ==
  [exists |-> TRUE, columns |-> cols,
   defaults |-> [k \in cols \cap FlagSet |->
                   IF engine = "postgres" THEN FALSE ELSE 0],
   uniqueName |-> u, trigger |-> TRUE, rows |-> rows]

InitTables(engine) ==
  {NoTable} \cup
  UNION {{LegacyTable(engine, cols, u, {}),
          LegacyTable(engine, cols, u, {SeedRow(engine, cols)})} :
           cols \in {BaseColumns, AllColumns}, u \in BOOLEAN}

(***************************************************************************)
(* State: the engine behind the connection strings, its table, and the     *)
(* last call of the router with its result.                                *)
(***************************************************************************)
VARIABLES engine, table, last, conn, page

vars == <<engine, table, last, conn, page>>

\* The page as it is first rendered: no record, no URL, no run of the
\* classification.
NoRun == [active |-> FALSE, names |-> <<>>, settled |-> <<>>, ids |-> <<>>,
          status |-> "idle", dbUrl |-> <<>>]
NoPage == [columns |-> <<>>, dbUrl |-> <<>>, status |-> "idle",
           isClassifying |-> FALSE, progress |-> 0, run |-> NoRun,
           op |-> "none", reported |-> 0, outOf |-> 0, calls |-> <<>>]

NoConn == [fault |-> "none", opened |-> {}, closed |-> {}, threw |-> FALSE,
           path |-> "returned"]

Call(op, url, dbType, columns, id, out) ==
  /\ UNCHANGED <<conn, page>>
  /\ table' = out.table
  /\ last' = [op |-> op, url |-> url, dbType |-> dbType, columns |-> columns,
              id |-> id, res |-> out.res, io |-> out.io, before |-> table,
              prevTest |-> IF last.op = "test" /\ last.res.success
                           THEN <<last.url, last.dbType>> ELSE <<>>]
  /\ UNCHANGED engine

\* The batch draws one fresh id for each record without an id.
EnoughUuids(columns) ==
  Cardinality({i \in DOMAIN columns : columns[i].id = Undefined})
    <= Cardinality(FreshIds(RowIds(table.rows)))

Init ==
  /\ engine \in Dialects
  /\ table \in InitTables(engine)
  /\ last = [op |-> "none", url |-> <<>>, dbType |-> "unknown",
             columns |-> <<>>, id |-> "", res |-> Result(TRUE, <<>>, <<>>),
             io |-> 0, before |-> table, prevTest |-> <<>>]
  /\ conn = NoConn
  /\ page = NoPage

TestConnection(url, dbType) ==
  Call("test", url, dbType, <<>>, "",
       testConnectionLogic(engine, table, url, dbType))

Fetch(url) ==
  \E order \in Orders(table.rows) :
    Call("fetch", url, DetectedType(url), <<>>, "",
         fetchColumnDataLogic(engine, table, url, order))

Insert(url, column) ==
  /\ EnoughUuids(<<column>>)
  /\ Call("insert", url, DetectedType(url), <<column>>, "",
          insertColumnDataLogic(engine, table, url, column))

BatchInsert(url, columns) ==
  /\ EnoughUuids(columns)
  /\ Call("batch", url, DetectedType(url), columns, "",
          batchInsertColumnDataLogic(engine, table, url, columns))

Update(url, column) ==
  Call("update", url, DetectedType(url), <<column>>, "",
       updateColumnDataLogic(engine, table, url, column))

Delete(url, id) ==
  Call("delete", url, DetectedType(url), <<>>, id,
       deleteColumnDataLogic(engine, table, url, id))

DeleteAll(url) ==
  Call("deleteAll", url, DetectedType(url), <<>>, "",
       deleteAllColumnsLogic(engine, table, url))

\* The connection strings that reach the engine.
UrlsToTable == [e \in Dialects |-> {url \in DataUrls : DetectedType(url) = e}]
UrlsTo(e) == UrlsToTable[e]

Next ==
  \/ \E url \in UrlsTo(engine) : TestConnection(url, DetectedType(url))
  \/ \E url \in UrlsTo(engine) : Fetch(url)
  \/ \E url \in UrlsTo(engine), column \in InsertColumns : Insert(url, column)
  \/ \E url \in UrlsTo(engine), columns \in Batches : BatchInsert(url, columns)
  \/ \E url \in UrlsTo(engine), column \in UpdateColumns : Update(url, column)
  \/ \E url \in UrlsTo(engine), id \in ClientIds \cup UuidPool : Delete(url, id)
  \/ \E url \in UrlsTo(engine) : DeleteAll(url)

Spec == Init /\ [][Next]_vars
(***************************************************************************)
(* The router called with every connection string of the model, whatever   *)
(* engine answers, with a few records.                                     *)
(***************************************************************************)
RouterColumns == {Filled("i1", "a"), Bare(Undefined, "b")}

NextRouter ==
  \/ \E url \in AllUrls : TestConnection(url, DetectedType(url))
  \/ \E url \in AllUrls : Fetch(url)
  \/ \E url \in AllUrls, column \in RouterColumns : Insert(url, column)
  \/ \E url \in AllUrls : BatchInsert(url, <<Bare(Undefined, "b")>>)
  \/ \E url \in AllUrls : Update(url, Bare("i1", "a"))
  \/ \E url \in AllUrls, id \in ClientIds : Delete(url, id)
  \/ \E url \in AllUrls : DeleteAll(url)

SpecRouter == Init /\ [][NextRouter]_vars

(***************************************************************************)
(* Insert and fetch with every combination of the five flags.              *)
(***************************************************************************)
FlagColumns == {Col("i1", "a", "d", "Secret", "r", f) : f \in FlagVectors}

NextFlags ==
  \/ \E url \in UrlsTo(engine) : TestConnection(url, DetectedType(url))
  \/ \E url \in UrlsTo(engine), column \in FlagColumns : Insert(url, column)
  \/ \E url \in UrlsTo(engine) : Fetch(url)
  \/ \E url \in UrlsTo(engine) : DeleteAll(url)

SpecFlags == Init /\ [][NextFlags]_vars

(***************************************************************************)
(* The router called while the connection may fail.                        *)
(***************************************************************************)
\* The URL of the engine, an Oracle URL parseOracleUrl rejects, and a URL
\* without an adapter.
FaultUrls(e) == UrlsTo(e) \cup {URL_ora_thin, URL_hive}
FaultColumns == {Filled("i1", "a")}
FaultBatches ==
  {<<Filled("i1", "a"), Filled("i1", "a")>>,
   <<Filled("i1", "b"), Bare(Undefined, "a")>>}

FaultyCall(fault, op, url, columns, id, out) ==
  LET f == UnderFault(op, DetectedType(url), engine, url, fault, out) IN
  /\ conn' = [fault |-> f.fault, opened |-> f.opened, closed |-> f.closed,
              threw |-> f.threw, path |-> f.path]
  /\ table' = f.table
  /\ last' = [op |-> op, url |-> url, dbType |-> DetectedType(url),
              columns |-> columns, id |-> id, res |-> f.res, io |-> f.io,
              before |-> table, prevTest |-> <<>>]
  /\ UNCHANGED <<engine, page>>

FaultyTest(fault, url) ==
  FaultyCall(fault, "test", url, <<>>, "",
             testConnectionLogic(Reach(engine, fault), table, url,
                                 DetectedType(url)))

FaultyFetch(fault, url) ==
  \E order \in Orders(table.rows) :
    FaultyCall(fault, "fetch", url, <<>>, "",
               fetchColumnDataLogic(Reach(engine, fault), table, url, order))

FaultyInsert(fault, url, column) ==
  /\ EnoughUuids(<<column>>)
  /\ FaultyCall(fault, "insert", url, <<column>>, "",
                insertColumnDataLogic(Reach(engine, fault), table, url,
                                      column))

FaultyBatchInsert(fault, url, columns) ==
  /\ EnoughUuids(columns)
  /\ FaultyCall(fault, "batch", url, columns, "",
                batchInsertColumnDataLogic(Reach(engine, fault), table, url,
                                           columns))

FaultyUpdate(fault, url, column) ==
  FaultyCall(fault, "update", url, <<column>>, "",
             updateColumnDataLogic(Reach(engine, fault), table, url, column))

FaultyDelete(fault, url, id) ==
  FaultyCall(fault, "delete", url, <<>>, id,
             deleteColumnDataLogic(Reach(engine, fault), table, url, id))

FaultyDeleteAll(fault, url) ==
  FaultyCall(fault, "deleteAll", url, <<>>, "",
             deleteAllColumnsLogic(Reach(engine, fault), table, url))

NextFaults ==
  \/ \E fault \in Faults, url \in FaultUrls(engine) : FaultyTest(fault, url)
  \/ \E fault \in Faults, url \in FaultUrls(engine) : FaultyFetch(fault, url)
  \/ \E fault \in Faults, url \in FaultUrls(engine), column \in FaultColumns :
       FaultyInsert(fault, url, column)
  \/ \E fault \in Faults, url \in FaultUrls(engine), columns \in FaultBatches :
       FaultyBatchInsert(fault, url, columns)
  \/ \E fault \in Faults, url \in FaultUrls(engine) :
       FaultyUpdate(fault, url, Bare("i1", "a"))
  \/ \E fault \in Faults, url \in FaultUrls(engine), id \in ClientIds :
       FaultyDelete(fault, url, id)
  \/ \E fault \in Faults, url \in FaultUrls(engine) : FaultyDeleteAll(fault, url)

SpecFaults == Init /\ [][NextFaults]_vars

(***************************************************************************)
(* The API handlers of /api/db: each answers 400 without a dbUrl, 200 with *)
(* the result of the router when it succeeded, 500 otherwise (404 when a   *)
(* delete found no row), and 500 when the router rejected.                 *)
(***************************************************************************)
HttpOk(status) == status >= 200 /\ status <= 299

\* Mutant of apiHandler: every failure is answered with 500.
apiHandler_always500(op, dbUrl, t, out, threw) ==
  IF Len(dbUrl) = 0
  THEN [status |-> 400, table |-> t,
        body |-> Result(FALSE, <<"dbUrl", "is", "required">>, <<>>)]
  ELSE IF threw
  THEN [status |-> 500, table |-> out.table,
        body |-> Result(FALSE, <<"Failed">>, <<>>)]
  ELSE IF out.res.success
  THEN [status |-> 200, table |-> out.table, body |-> out.res]
  ELSE [status |-> 500, table |-> out.table, body |-> out.res]

apiHandler(op, dbUrl, t, out, threw) ==
  IF Len(dbUrl) = 0
  THEN [status |-> 400, table |-> t,
        body |-> Result(FALSE, <<"dbUrl", "is", "required">>, <<>>)]
  ELSE IF threw
  THEN [status |-> 500, table |-> out.table,
        body |-> Result(FALSE, <<"Failed">>, <<>>)]
  ELSE IF out.res.success
  THEN [status |-> 200, table |-> out.table, body |-> out.res]
  ELSE IF op = "delete" /\ includes(out.res.message, <<"not", "found">>)
  THEN [status |-> 404, table |-> out.table, body |-> out.res]
  ELSE [status |-> 500, table |-> out.table, body |-> out.res]

(***************************************************************************)
(* The page (DataClassificationPage): its list of columns, the URL field,  *)
(* the connection status and the run of the classification.                *)
(***************************************************************************)
STR_sid == <<"s","i","d">>
STR_service_name == <<"s","e","r","v","i","c","e","_","n","a","m","e">>

\* The detector of the page.
clientDetectDbType(url) ==
  IF Len(url) = 0 THEN "unknown"
  ELSE LET lowerUrl == toLowerCase(url) IN
    IF startsWith(lowerUrl, STR_postgres) THEN "postgres"
    ELSE IF \/ startsWith(lowerUrl, STR_oracle)
            \/ /\ includes(lowerUrl, STR_at)
               /\ \/ includes(lowerUrl, STR_sid)
                  \/ includes(lowerUrl, STR_service_name)
         THEN "oracle"
    ELSE IF startsWith(lowerUrl, STR_hive) THEN "hive"
    ELSE "unknown"

ClientDetectTable == [u \in AllUrls |-> clientDetectDbType(u)]

PageUuidPool == {UuidSeq[i] : i \in 1..MaxPageUuid}
ColumnKeys ==
  {"id", "columnName", "description", "ndmoClassification", "reason_ndmo"}
    \cup FlagSet

\* The column of a request body as the adapters read it: a property that is
\* absent reads undefined.
AsColumn(rec) == [k \in ColumnKeys |-> JsGet(rec, k)]
AsColumns(list) == [i \in DOMAIN list |-> AsColumn(list[i])]

\* { ...a, ...b }
Spread(a, b) ==
  [k \in DOMAIN a \cup DOMAIN b |-> IF k \in DOMAIN b THEN b[k] ELSE a[k]]

\* list.sort((a, b) => a.columnName.localeCompare(b.columnName)): the sort
\* is stable.
RECURSIVE SortFrom(_, _)
SortFrom(list, i) ==
  IF i > Len(NameOrder) THEN <<>>
  ELSE LET Named(c) == c.columnName = NameOrder[i]
       IN SelectSeq(list, Named) \o SortFrom(list, i + 1)

\* The empty name comes before every other name.
sortByName(list) ==
  LET Nameless(c) == c.columnName = "" IN
  SelectSeq(list, Nameless) \o SortFrom(list, 1)

ListIds(list) == {list[i].id : i \in DOMAIN list}

\* What fetchAndSetColumns sets the list to, given the response.
fetchAndSetColumns(resp) ==
  IF ~HttpOk(resp.status) THEN <<>>
  ELSE IF resp.body.success THEN sortByName(resp.body.data)
  ELSE <<>>

\* One request of a handler to the API: whether the database could be
\* reached, whether the API answered success, and whether the table and,
\* once the handler has dealt with the response, the list have changed.
ApiCall(op, up, resp, tBefore, tAfter, listBefore, listAfter) ==
  [op |-> op, up |-> up,
   ok |-> HttpOk(resp.status) /\ resp.body.success,
   tableChanged |-> tAfter # tBefore,
   listChanged |-> listAfter # listBefore]

ReachUp(up) == Reach(engine, IF up THEN "none" ELSE "connect")

Done(op, list, calls) ==
  [page EXCEPT !.op = op, !.columns = list, !.calls = calls,
               !.reported = 0, !.outOf = 0]

\* onChange of the URL field.
PageSetUrl(url) ==
  /\ url # page.dbUrl
  /\ page' = [Done("setUrl", page.columns, <<>>) EXCEPT
                !.dbUrl = url,
                !.status = IF page.status \notin {"idle", "connecting"}
                           THEN "idle" ELSE page.status]
  /\ UNCHANGED <<engine, table, last, conn>>

\* handleTestConnection(): the test, the sync of the local records when
\* there are some, and the fetch.
ConnectTest(up) ==
  apiHandler("test", page.dbUrl, table,
             testConnectionLogic(ReachUp(up), table, page.dbUrl,
                                 ClientDetectTable[page.dbUrl]), FALSE)

ConnectSync(up, t) ==
  apiHandler("batch", page.dbUrl, t,
             batchInsertColumnDataLogic(ReachUp(up), t, page.dbUrl,
                                        AsColumns(page.columns)), FALSE)

ConnectSynced(upTest, upSync) ==
  IF Len(page.columns) > 0
  THEN ConnectSync(upSync, ConnectTest(upTest).table).table
  ELSE ConnectTest(upTest).table

PageConnect(upTest, upSync, upFetch) ==
  LET url == page.dbUrl
      dbType == ClientDetectTable[url]
      test == ConnectTest(upTest)
      testCall == ApiCall("test", upTest, test, table, test.table, page.columns,
                          page.columns)
      synced == ConnectSynced(upTest, upSync)
      syncCalls == IF Len(page.columns) > 0
                   THEN <<ApiCall("batch", upSync,
                                  ConnectSync(upSync, test.table),
                                  test.table, synced,
                                  page.columns, page.columns)>>
                   ELSE <<>>
  IN
  /\ page.status # "connecting"
  /\ UNCHANGED <<engine, last, conn>>
  /\ IF Len(url) = 0
     THEN /\ page' = [Done("connect", page.columns, <<>>) EXCEPT
                        !.status = "error"]
          /\ UNCHANGED table
     ELSE IF ~HttpOk(test.status) \/ ~test.body.success
     THEN /\ page' = [Done("connect", page.columns, <<testCall>>) EXCEPT
                        !.status = "error"]
          /\ table' = test.table
     ELSE IF dbType \notin Dialects
     THEN /\ page' = [Done("connect", <<>>, <<testCall>>) EXCEPT
                        !.status = "connected"]
          /\ table' = test.table
     ELSE \E order \in Orders(synced.rows) :
            LET resp == apiHandler("fetch", url, synced,
                                   fetchColumnDataLogic(ReachUp(upFetch),
                                                        synced, url, order),
                                   FALSE)
                list == fetchAndSetColumns(resp)
            IN /\ page' = [Done("connect", list,
                                <<testCall>> \o syncCalls \o
                                <<ApiCall("fetch", upFetch, resp, synced,
                                          resp.table, page.columns, list)>>)
                             EXCEPT !.status = "connected"]
               /\ table' = resp.table

FirstWithId(list, id) ==
  list[CHOOSE i \in DOMAIN list :
         /\ list[i].id = id
         /\ \A j \in 1..(i - 1) : list[j].id # id]

Connected == page.status = "connected" /\ Len(page.dbUrl) > 0

\* handleUpdateColumn(id, updatedData)
PageUpdate(id, updatedData, up) ==
  /\ id \in ListIds(page.columns)
  /\ UNCHANGED <<engine, last, conn>>
  /\ LET newFullData == Spread(FirstWithId(page.columns, id), updatedData)
         resp == apiHandler("update", page.dbUrl, table,
                            updateColumnDataLogic(ReachUp(up), table,
                                                  page.dbUrl,
                                                  AsColumn(newFullData)),
                            FALSE)
         replaced == [i \in DOMAIN page.columns |->
                        IF page.columns[i].id = id THEN resp.body.data[1]
                        ELSE page.columns[i]]
         merged == [i \in DOMAIN page.columns |->
                      IF page.columns[i].id = id
                      THEN Spread(page.columns[i], updatedData)
                      ELSE page.columns[i]]
     IN IF Connected
        THEN LET list == IF HttpOk(resp.status) /\ resp.body.success
                            /\ Len(resp.body.data) > 0
                         THEN sortByName(replaced) ELSE page.columns
             IN /\ page' = Done("update", list,
                                <<ApiCall("update", up, resp, table, resp.table,
                                          page.columns, list)>>)
                /\ table' = resp.table
        ELSE /\ page' = Done("update", sortByName(merged), <<>>)
             /\ UNCHANGED table

Without(list, id) ==
  LET Other(c) == c.id # id IN SelectSeq(list, Other)

\* handleDeleteColumn(id)
PageDelete(id, up) ==
  /\ id \in ListIds(page.columns)
  /\ UNCHANGED <<engine, last, conn>>
  /\ LET resp == apiHandler("delete", page.dbUrl, table,
                            deleteColumnDataLogic(ReachUp(up), table,
                                                  page.dbUrl, id), FALSE)
     IN IF Connected
        THEN LET list == IF HttpOk(resp.status) /\ resp.body.success
                         THEN Without(page.columns, id) ELSE page.columns
             IN /\ page' = Done("delete", list,
                                <<ApiCall("delete", up, resp, table, resp.table,
                                          page.columns, list)>>)
                /\ table' = resp.table
        ELSE /\ page' = Done("delete", Without(page.columns, id), <<>>)
             /\ UNCHANGED table

\* handleDeleteAll()
PageDeleteAll(up) ==
  /\ UNCHANGED <<engine, last, conn>>
  /\ LET resp == apiHandler("deleteAll", page.dbUrl, table,
                            deleteAllColumnsLogic(ReachUp(up), table,
                                                  page.dbUrl), FALSE)
     IN IF Connected
        THEN LET list == IF HttpOk(resp.status) /\ resp.body.success
                         THEN <<>> ELSE page.columns
             IN /\ page' = Done("deleteAll", list,
                                <<ApiCall("deleteAll", up, resp, table, resp.table,
                                          page.columns, list)>>)
                /\ table' = resp.table
        ELSE /\ page' = Done("deleteAll", <<>>, <<>>)
             /\ UNCHANGED table

(***************************************************************************)
(* handleCsvUpload: the rows Papa.parse yields (one object for each line,  *)
(* keyed by the headers of the file, every cell a string) are mapped to    *)
(* records, which are synced when the page is connected and appended to    *)
(* the list otherwise.  A cell is a sequence of characters.                *)
(***************************************************************************)
\* The value of a property the row does not have.
CsvUndefined == <<"<undefined>">>

CsvCell(row, header) ==
  IF header \in DOMAIN row THEN row[header] ELSE CsvUndefined

\* a || b
Truthy(v) == v # <<>> /\ v # CsvUndefined
JsOr(a, b) == IF Truthy(a) THEN a ELSE b

\* String(value)
StringOf(v) ==
  IF v = CsvUndefined THEN <<"u","n","d","e","f","i","n","e","d">> ELSE v

RECURSIVE trimStart(_)
trimStart(s) ==
  IF s # <<>> /\ Head(s) = " " THEN trimStart(Tail(s)) ELSE s

RECURSIVE trimEnd(_)
trimEnd(s) ==
  IF s # <<>> /\ s[Len(s)] = " " THEN trimEnd(SubSeq(s, 1, Len(s) - 1))
  ELSE s

trim(s) == trimEnd(trimStart(s))

TrueWords == {<<"t","r","u","e">>, <<"y","e","s">>, <<"1">>}

\* Mutant of toBoolean: the text is compared as it is written.
toBoolean_asWritten(value) == trim(StringOf(value)) \in TrueWords

toBoolean(value) == toLowerCase(trim(StringOf(value))) \in TrueWords

\* The string of a sequence of characters.
RECURSIVE Join(_)
Join(s) == IF s = <<>> THEN "" ELSE Head(s) \o Join(Tail(s))

\* A property of the record: the string, or undefined.
CsvField(v) == IF v = CsvUndefined THEN Undefined ELSE Join(v)

\* The callback of .map(): no record (null) for a row without a name.
csvRowToColumn(row, uuid) ==
  LET columnName == JsOr(JsOr(CsvCell(row, "Column Name"),
                              CsvCell(row, "column_name")),
                         CsvCell(row, "columnName"))
  IN IF ~Truthy(columnName) THEN <<>>
     ELSE <<[id |-> CsvField(JsOr(JsOr(CsvCell(row, "ID"), CsvCell(row, "id")),
                                  uuid)),
             columnName |-> Join(trim(columnName)),
             description |-> CsvField(JsOr(JsOr(CsvCell(row, "Description"),
                                                CsvCell(row, "description")),
                                           <<>>)),
             ndmoClassification |->
               CsvField(JsOr(JsOr(CsvCell(row, "NDMO Classification"),
                                  CsvCell(row, "ndmo_classification")),
                             <<"P","u","b","l","i","c">>)),
             reason_ndmo |-> CsvField(CsvCell(row, "reason_ndmo")),
             pii |-> toBoolean(JsOr(CsvCell(row, "PII"), CsvCell(row, "pii"))),
             phi |-> toBoolean(JsOr(CsvCell(row, "PHI"), CsvCell(row, "phi"))),
             pfi |-> toBoolean(JsOr(CsvCell(row, "PFI"), CsvCell(row, "pfi"))),
             psi |-> toBoolean(JsOr(CsvCell(row, "PSI"), CsvCell(row, "psi"))),
             pci |-> toBoolean(JsOr(CsvCell(row, "PCI"), CsvCell(row, "pci")))]>>

\* results.data.map(...).filter((col) => col !== null): the i-th row draws
\* the i-th id of uuids when it has none.
RECURSIVE ParsedFrom(_, _, _)
ParsedFrom(rows, uuids, i) ==
  IF i > Len(rows) THEN <<>>
  ELSE csvRowToColumn(rows[i], <<uuids[i]>>) \o ParsedFrom(rows, uuids, i + 1)

parsedColumns(rows, uuids) == ParsedFrom(rows, uuids, 1)

\* The ids crypto.randomUUID() may yield for the rows of a file.
CsvUuids(rows) ==
  {u \in [DOMAIN rows -> PageUuidPool] :
     /\ \A i, j \in DOMAIN rows : i # j => u[i] # u[j]
     /\ \A i \in DOMAIN rows :
          u[i] \notin ListIds(page.columns) \cup RowIds(table.rows)}

\* handleCsvUpload(event), from the complete callback on.
PageCsvUpload(rows, upSync, upFetch) ==
  \E uuids \in CsvUuids(rows) :
    LET parsed == parsedColumns(rows, uuids)
        sync == apiHandler("batch", page.dbUrl, table,
                           batchInsertColumnDataLogic(ReachUp(upSync), table,
                                                      page.dbUrl,
                                                      AsColumns(parsed)),
                           FALSE)
    IN
    /\ last' = [last EXCEPT !.op = "csv", !.columns = rows, !.before = table]
    /\ UNCHANGED <<engine, conn>>
    /\ IF Len(parsed) = 0
       THEN /\ page' = Done("csv", page.columns, <<>>)
            /\ UNCHANGED table
       ELSE IF ~Connected
       THEN /\ page' = Done("csv", sortByName(page.columns \o parsed), <<>>)
            /\ UNCHANGED table
       ELSE IF ~HttpOk(sync.status) \/ ~sync.body.success
       THEN /\ page' = Done("csv", page.columns,
                            <<ApiCall("batch", upSync, sync, table, sync.table,
                                      page.columns, page.columns)>>)
            /\ table' = sync.table
       ELSE \E order \in Orders(sync.table.rows) :
              LET resp == apiHandler("fetch", page.dbUrl, sync.table,
                                     fetchColumnDataLogic(ReachUp(upFetch),
                                                          sync.table,
                                                          page.dbUrl, order),
                                     FALSE)
                  list == fetchAndSetColumns(resp)
              IN /\ page' = Done("csv", list,
                                 <<ApiCall("batch", upSync, sync, table,
                                           sync.table, page.columns,
                                           page.columns),
                                   ApiCall("fetch", upFetch, resp, sync.table,
                                           resp.table, page.columns, list)>>)
                 /\ table' = resp.table

(***************************************************************************)
(* classifyAndAddColumns(columnNames): one request for each name, all      *)
(* sent together; each settles on its own; the rest of the handler runs    *)
(* when all have settled.  The handler reads the connection status and the *)
(* URL of the render it was called in.                                     *)
(***************************************************************************)
\* The batches of names: a, then a and b, and so on in turn.
NameBatches ==
  {[i \in 1..n |-> NameOrder[((i - 1) % Len(NameOrder)) + 1]] :
     n \in 1..MaxNames}

ClassifyStart(columnNames) ==
  /\ ~page.isClassifying
  /\ page' = [page EXCEPT
                !.op = "classifyStart", !.calls = <<>>,
                !.reported = 0, !.outOf = 0,
                !.isClassifying = TRUE, !.progress = 0,
                !.run = [active |-> TRUE, names |-> columnNames,
                         settled |-> [i \in DOMAIN columnNames |-> "pending"],
                         ids |-> [i \in DOMAIN columnNames |-> Undefined],
                         status |-> page.status, dbUrl |-> page.dbUrl]]
  /\ UNCHANGED <<engine, table, last, conn>>

RunIds == {page.run.ids[i] : i \in DOMAIN page.run.ids} \ {Undefined}
PageFreshIds ==
  PageUuidPool \ (ListIds(page.columns) \cup RowIds(table.rows) \cup RunIds)

\* The request for the i-th name settles: classified, with a new id, or not.
ClassifySettle(i, classified) ==
  /\ page.run.active
  /\ i \in DOMAIN page.run.names
  /\ page.run.settled[i] = "pending"
  /\ classified => PageFreshIds # {}
  /\ page' = [page EXCEPT
                !.op = "classifySettle", !.calls = <<>>,
                !.progress = page.progress + 1,
                !.run.settled[i] = IF classified THEN "ok" ELSE "failed",
                !.run.ids[i] = IF classified
                               THEN CHOOSE u \in PageFreshIds : TRUE
                               ELSE Undefined]
  /\ UNCHANGED <<engine, table, last, conn>>

\* results.filter((col) => col !== null), in the order of the names.
RECURSIVE ClassifiedFrom(_, _)
\* Mutant of ClassifiedFrom: the first name that fails ends the list, as
\* Promise.all would do with a request that rejects.
ClassifiedFrom_untilFailure(run, i) ==
  IF i > Len(run.names) \/ run.settled[i] # "ok" THEN <<>>
  ELSE <<Filled(run.ids[i], run.names[i])>> \o ClassifiedFrom(run, i + 1)

ClassifiedFrom(run, i) ==
  IF i > Len(run.names) THEN <<>>
  ELSE (IF run.settled[i] = "ok"
        THEN <<Filled(run.ids[i], run.names[i])>> ELSE <<>>)
       \o ClassifiedFrom(run, i + 1)

classifiedColumns == ClassifiedFrom(page.run, 1)

ClassifySync(up) ==
  apiHandler("batch", page.run.dbUrl, table,
             batchInsertColumnDataLogic(ReachUp(up), table, page.run.dbUrl,
                                        AsColumns(classifiedColumns)), FALSE)

Finished(list, calls) ==
  [Done("classify", list, calls) EXCEPT
     !.isClassifying = FALSE, !.progress = 0, !.run = NoRun,
     !.reported = Len(classifiedColumns), !.outOf = Len(page.run.names)]

ClassifyFinish(upSync, upFetch) ==
  LET added == sortByName(page.columns \o classifiedColumns)
      sync == ClassifySync(upSync)
  IN
  /\ page.run.active
  /\ \A i \in DOMAIN page.run.settled : page.run.settled[i] # "pending"
  /\ UNCHANGED <<engine, last, conn>>
  /\ IF Len(classifiedColumns) = 0
     THEN /\ page' = Finished(page.columns, <<>>)
          /\ UNCHANGED table
     ELSE IF ~(page.run.status = "connected" /\ Len(page.run.dbUrl) > 0)
     THEN /\ page' = Finished(added, <<>>)
          /\ UNCHANGED table
     ELSE IF ~HttpOk(sync.status) \/ ~sync.body.success
     THEN /\ page' = Finished(added,
                              <<ApiCall("batch", upSync, sync, table,
                                        sync.table, page.columns, added)>>)
          /\ table' = sync.table
     ELSE \E order \in Orders(sync.table.rows) :
            LET resp == apiHandler("fetch", page.run.dbUrl, sync.table,
                                   fetchColumnDataLogic(ReachUp(upFetch),
                                                        sync.table,
                                                        page.run.dbUrl,
                                                        order), FALSE)
                list == fetchAndSetColumns(resp)
            IN /\ page' = Finished(list,
                                   <<ApiCall("batch", upSync, sync, table,
                                             sync.table, page.columns,
                                             page.columns),
                                     ApiCall("fetch", upFetch, resp,
                                             sync.table, resp.table,
                                             page.columns, list)>>)
               /\ table' = resp.table

PageUrls == DataUrls
Patches == {[description |-> "e"]}

\* The page is opened against a database without the table, or with the
\* table and a row in it.
PageTables(e) ==
  {NoTable, LegacyTable(e, AllColumns, FALSE, {SeedRow(e, AllColumns)})}

InitPage == Init /\ table \in PageTables(engine)

NextPage ==
  \/ \E url \in PageUrls : PageSetUrl(url)
  \/ \E upTest, upSync, upFetch \in BOOLEAN :
       PageConnect(upTest, upSync, upFetch)
  \/ \E id \in ClientIds, updatedData \in Patches, up \in BOOLEAN :
       PageUpdate(id, updatedData, up)
  \/ \E id \in ClientIds, up \in BOOLEAN : PageDelete(id, up)
  \/ \E up \in BOOLEAN : PageDeleteAll(up)

SpecPage == InitPage /\ [][NextPage]_vars

\* The files of the import: rows with the name under each of its headers,
\* with spaces around it, of spaces only, empty or missing; a flag cell in
\* several spellings; the classification and the description given or not.
NameParts ==
  {<<>>,
   [h \in {"Column Name"} |-> <<" ", "a", " ">>],
   [h \in {"column_name"} |-> <<"b">>],
   [h \in {"columnName"} |-> <<"a">>],
   [h \in {"Column Name"} |-> <<" ">>],
   [h \in {"Column Name"} |-> <<>>],
   [h \in {"Column Name", "column_name"} |->
      IF h = "Column Name" THEN <<>> ELSE <<"b">>]}

FlagTexts ==
  {<<"y","e","s">>, <<" ","Y","E","S"," ">>, <<"T","r","u","e">>, <<"1">>,
   <<"t","r","u","e">>, <<"0">>, <<"n","o">>, <<"y">>, <<"F","A","L","S","E">>,
   <<"1","1">>, <<>>}

FlagParts ==
  {<<>>}
  \cup {[h \in {"PII"} |-> t] : t \in FlagTexts}
  \cup {[h \in {"pii"} |-> t] : t \in {<<"Y","e","s">>, <<"n","o">>}}
  \cup {[h \in {"PII", "pii"} |-> IF h = "PII" THEN <<>> ELSE <<"1">>],
        [h \in {"PHI", "pfi", "PSI", "pci"} |->
           IF h \in {"PHI", "pci"} THEN <<"y","e","s">> ELSE <<"n","o">>]}

NdmoParts ==
  {<<>>,
   [h \in {"NDMO Classification"} |-> <<"S","e","c","r","e","t">>],
   [h \in {"ndmo_classification"} |-> <<"S","e","c","r","e","t">>],
   [h \in {"NDMO Classification"} |-> <<>>]}

DescriptionParts ==
  {<<>>, [h \in {"Description"} |-> <<"d">>], [h \in {"description"} |-> <<>>]}

CsvRows ==
  {Spread(Spread(n, f), Spread(c, d)) :
     n \in NameParts, f \in FlagParts, c \in NdmoParts, d \in DescriptionParts}

WithId(row, id) == Spread(row, [h \in {"ID"} |-> id])

CsvFiles ==
  {<<row>> : row \in CsvRows}
  \cup {<<WithId(r1, <<"i","1">>), WithId(r2, <<"i","2">>)>> :
          r1 \in {Spread(n, [h \in {"PII"} |-> <<"y","e","s">>]) :
                    n \in NameParts},
          r2 \in {Spread(n, [h \in {"pci"} |-> <<"1">>]) : n \in NameParts}}

\* The first import into a page that is not connected and holds no record.
InitCsv == Init /\ engine = "postgres" /\ table = NoTable

NextCsv ==
  \E rows \in CsvFiles :
    /\ page.op = "none"
    /\ PageCsvUpload(rows, TRUE, TRUE)

SpecCsv == InitCsv /\ [][NextCsv]_vars

\* The page classifying names, connected or not, against a database that
\* starts without the table or with the empty table an older version left.
ClassifyTables(e) == {NoTable, LegacyTable(e, BaseColumns, TRUE, {})}

InitClassify == Init /\ table \in ClassifyTables(engine)

NextClassify ==
  \/ \E url \in UrlsTo(engine) : PageSetUrl(url)
  \/ \E upTest, upSync, upFetch \in BOOLEAN :
       PageConnect(upTest, upSync, upFetch)
  \/ \E columnNames \in NameBatches : ClassifyStart(columnNames)
  \/ \E i \in 1..MaxNames, classified \in BOOLEAN :
       ClassifySettle(i, classified)
  \/ \E upSync, upFetch \in BOOLEAN : ClassifyFinish(upSync, upFetch)

SpecClassify == InitClassify /\ [][NextClassify]_vars

(***************************************************************************)
(* classify-column: the API handler and classifyColumn behind it.  The     *)
(* content of a reply of the model is a sequence of tokens: a code fence   *)
(* (with or without the word json), a brace, a member of an object (a key  *)
(* and its value), or other text.  White space, which the patterns skip,   *)
(* is left out.                                                            *)
(***************************************************************************)
ndmoClassificationOptions == {"Top Secret", "Secret", "Restricted", "Public"}

SchemaKeys == {"description", "ndmoClassification"} \cup FlagSet

\* JSON values.
Str(s) == [ty |-> "string", v |-> s]
Bool(b) == [ty |-> "boolean", v |-> b]

Fence == [t |-> "fence"]
FenceJson == [t |-> "fenceJson"]
LBrace == [t |-> "{"]
RBrace == [t |-> "}"]
Text == [t |-> "text"]
Member(k, val) == [t |-> "member", k |-> k, val |-> val]

\* A pattern that does not match yields no text.
NoMatch == <<>>

\* The first group of the match of the fenced pattern in content: from the
\* brace after the leftmost fence to the first closing brace that a fence
\* follows.
fencedMatch(content) ==
  LET Closes(i) == {j \in (i + 2)..(Len(content) - 1) :
                      /\ content[j] = RBrace
                      /\ content[j + 1] \in {Fence, FenceJson}}
      Opens == {i \in 1..(Len(content) - 1) :
                  /\ content[i] \in {Fence, FenceJson}
                  /\ content[i + 1] = LBrace
                  /\ Closes(i) # {}}
      Min(S) == CHOOSE x \in S : \A y \in S : x <= y
  IN IF Opens = {} THEN NoMatch
     ELSE SubSeq(content, Min(Opens) + 1, Min(Closes(Min(Opens))))

\* The match of the fallback pattern in content: the first opening brace up
\* to the last closing brace.
fallbackMatch(content) ==
  LET Opens == {i \in DOMAIN content :
                  /\ content[i] = LBrace
                  /\ \E j \in (i + 1)..Len(content) : content[j] = RBrace}
      Closes == {j \in DOMAIN content : content[j] = RBrace}
      Min(S) == CHOOSE x \in S : \A y \in S : x <= y
      Max(S) == CHOOSE x \in S : \A y \in S : x >= y
  IN IF Opens = {} THEN NoMatch
     ELSE SubSeq(content, Min(Opens), Max(Closes))

\* JSON.parse(jsonText) of an object: the members between the braces; the
\* last member of a key wins.
JsonParses(jsonText) ==
  /\ Len(jsonText) >= 2
  /\ jsonText[1] = LBrace
  /\ jsonText[Len(jsonText)] = RBrace
  /\ \A i \in 2..(Len(jsonText) - 1) : jsonText[i].t = "member"

JsonParse(jsonText) ==
  LET Keys == {jsonText[i].k : i \in 2..(Len(jsonText) - 1)}
      LastOf(k) == CHOOSE i \in 2..(Len(jsonText) - 1) :
                     /\ jsonText[i].k = k
                     /\ \A j \in (i + 1)..(Len(jsonText) - 1) :
                          jsonText[j].k # k
  IN [k \in Keys |-> jsonText[LastOf(k)].val]

\* Mutant of safeParseSucceeds: the flags are optional.
safeParseSucceeds_flagsOptional(parsed) ==
  /\ "description" \in DOMAIN parsed
  /\ parsed["description"].ty = "string"
  /\ "ndmoClassification" \in DOMAIN parsed
  /\ parsed["ndmoClassification"].ty = "string"
  /\ parsed["ndmoClassification"].v \in ndmoClassificationOptions
  /\ \A k \in FlagSet \cap DOMAIN parsed : parsed[k].ty = "boolean"

\* ClassifyColumnOutputSchema.safeParse(parsed).success
safeParseSucceeds(parsed) ==
  /\ SchemaKeys \subseteq DOMAIN parsed
  /\ parsed["description"].ty = "string"
  /\ parsed["ndmoClassification"].ty = "string"
  /\ parsed["ndmoClassification"].v \in ndmoClassificationOptions
  /\ \A k \in FlagSet : parsed[k].ty = "boolean"

\* result.data: z.object keeps the keys of the schema and drops the others.
safeParseData(parsed) ==
  [k \in SchemaKeys \cap DOMAIN parsed |-> parsed[k].v]

Throws(message) == [ok |-> FALSE, message |-> message, data |-> Undefined]
Returns(data) == [ok |-> TRUE, message |-> <<>>, data |-> data]

\* classifyColumn(columnName) given the reply of the endpoint: none, or a
\* response with a status whose body is not JSON, has no choices, or has
\* the content of the first choice.
classifyColumn(reply) ==
  IF reply.kind = "unreachable" THEN Throws(<<"fetch", "failed">>)
  ELSE IF ~HttpOk(reply.status)
  THEN Throws(<<"Groq", "API", "error:", ToString(reply.status)>>)
  ELSE IF reply.kind = "noJson"
  THEN Throws(<<"Unexpected", "token">>)
  ELSE IF reply.kind = "noChoices" \/ reply.content = <<>>
  THEN Throws(<<"No", "content", "returned", "from", "Groq", "API">>)
  ELSE LET match == fencedMatch(reply.content)
           jsonText == IF match # NoMatch THEN match
                       ELSE fallbackMatch(reply.content)
       IN IF jsonText = NoMatch
          THEN Throws(<<"Groq", "returned", "non-JSON", "output:">>)
          ELSE IF ~JsonParses(jsonText)
          THEN Throws(<<"Failed", "to", "parse", "JSON", "from", "Groq:">>)
          ELSE IF ~safeParseSucceeds(JsonParse(jsonText))
          THEN Throws(<<"Invalid", "response", "format", "from", "Groq:">>)
          ELSE Returns(safeParseData(JsonParse(jsonText)))

\* classifyColumnFlow: ai.generate rejects, or yields null, or an output
\* that conforms to the schema.
classifyColumnFlow(generated) ==
  IF generated.kind = "rejects" THEN Throws(<<"generate", "failed">>)
  ELSE IF generated.kind = "null"
  THEN Throws(<<"AI", "failed", "to", "generate", "a", "classification.",
                "The", "model", "returned", "a", "null", "response.">>)
  ELSE Returns(generated.output)

\* The handler of /api/ai/classify-column.
classifyHandler(columnName, outcome) ==
  IF columnName = Undefined \/ columnName = ""
  THEN [status |-> 400,
        body |-> [success |-> FALSE,
                  message |-> <<"columnName", "(string)", "is", "required",
                                "in", "the", "request", "body.">>]]
  ELSE IF outcome.ok
  THEN [status |-> 200,
        body |-> [success |-> TRUE,
                  data |-> [classification |-> outcome.data]]]
  ELSE [status |-> 500,
        body |-> [success |-> FALSE,
                  message |-> <<"Failed", "to", "classify", "column:">>
                                \o outcome.message]]

\* Objects the model may answer with, each with what is wrong with it.
ValidMembers(ndmo) ==
  <<Member("description", Str("d")), Member("ndmoClassification", Str(ndmo)),
    Member("pii", Bool(TRUE)), Member("phi", Bool(FALSE)),
    Member("pfi", Bool(TRUE)), Member("psi", Bool(FALSE)),
    Member("pci", Bool(TRUE))>>

WithoutMember(members, k) ==
  LET Other(m) == m.k # k IN SelectSeq(members, Other)

ModelObjects ==
  {[members |-> ValidMembers(n), mode |-> "none"] :
     n \in ndmoClassificationOptions}
  \cup {[members |-> ValidMembers(n)
                       \o <<Member("reason_ndmo", Str("r"))>>,
         mode |-> "none"] : n \in ndmoClassificationOptions}
  \cup {[members |-> WithoutMember(ValidMembers("Secret"), k),
         mode |-> "schema"] : k \in SchemaKeys}
  \cup {[members |-> ValidMembers(n), mode |-> "schema"] :
          n \in {"secret", "Confidential"}}
  \cup {[members |-> ValidMembers("Public") \o <<Member("pci", Str("true"))>>,
         mode |-> "schema"]}

\* The ways the model writes an object down, and contents that hold none.
Wrapped(members) ==
  LET object == <<LBrace>> \o members \o <<RBrace>> IN
  {object,
   <<FenceJson>> \o object \o <<Fence>>,
   <<Fence>> \o object \o <<Fence>>,
   <<Text>> \o object \o <<Text>>,
   <<Text, FenceJson>> \o object \o <<Fence, Text>>}

ModelContents ==
  UNION {{[content |-> c, mode |-> o.mode] : c \in Wrapped(o.members)} :
           o \in ModelObjects}
  \cup {[content |-> c, mode |-> "unparseable"] :
          c \in {<<Text>>,
                 <<LBrace>> \o ValidMembers("Secret"),
                 <<LBrace>> \o ValidMembers("Secret") \o <<Text, RBrace>>,
                 <<FenceJson, LBrace, Text, RBrace, Fence>>,
                 <<LBrace>> \o ValidMembers("Secret") \o <<RBrace, Text, LBrace>>
                   \o ValidMembers("Public") \o <<RBrace>>}}
  \cup {[content |-> <<>>, mode |-> "empty"]}

ErrorStatuses == {401, 429, 500}

GroqReplies ==
  {[kind |-> "unreachable", mode |-> "unreachable"]}
  \cup {[kind |-> "http", status |-> st, content |-> <<>>,
         mode |-> "status"] : st \in ErrorStatuses}
  \cup {[kind |-> "noJson", status |-> 200, mode |-> "unparseable"],
         [kind |-> "noChoices", status |-> 200, mode |-> "empty"]}
  \cup {[kind |-> "http", status |-> 200, content |-> c.content,
         mode |-> c.mode] : c \in ModelContents}

FlowReplies ==
  {[kind |-> "rejects"], [kind |-> "null"]}
  \cup {[kind |-> "output", output |-> safeParseData(JsonParse(
           <<LBrace>> \o ValidMembers(n) \o <<RBrace>>))] :
          n \in ndmoClassificationOptions}

ColumnNames == Names \cup {""}

ClassifyColumn(columnName, provider, reply) ==
  LET outcome == IF provider = "groq" THEN classifyColumn(reply)
                 ELSE classifyColumnFlow(reply)
      response == classifyHandler(columnName, outcome)
  IN /\ last' = [op |-> "classify", columnName |-> columnName,
                 provider |-> provider, reply |-> reply,
                 status |-> response.status, res |-> response.body]
     /\ UNCHANGED <<engine, table, conn, page>>

InitAi == Init /\ engine = "postgres" /\ table = NoTable

NextAi ==
  \/ \E columnName \in ColumnNames, reply \in GroqReplies :
       ClassifyColumn(columnName, "groq", reply)
  \/ \E columnName \in ColumnNames, reply \in FlowReplies :
       ClassifyColumn(columnName, "flow", reply)

SpecAi == InitAi /\ [][NextAi]_vars

(***************************************************************************)
(* Vocabulary of the properties.                                           *)
(***************************************************************************)
DataOps == {"fetch", "insert", "batch", "update", "delete", "deleteAll"}

\* The table has the columns of the current version.
Reconciled(t) == t.exists /\ AllColumns \subseteq t.columns

\* Two JavaScript values are the same text, or both are no value.
SameText(a, b) == a = b \/ ({a, b} \subseteq {Undefined, NULL})

TextFields == {"columnName", "description", "ndmoClassification", "reason_ndmo"}

\* What a fetch of table t returns to the caller of url, in any row order.
Fetched(t, url) ==
  {fetchColumnDataLogic(engine, t, url, order) : order \in Orders(t.rows)}

\* The records of a fetch result.
Records(out) == {out.res.data[i] : i \in DOMAIN out.res.data}

\* The id under which the last insert stored its record.
InsertedId ==
  IF last.columns[1].id # Undefined THEN last.columns[1].id
  ELSE CHOOSE id \in RowIds(table.rows) : id \notin RowIds(last.before.rows)

SameFlags(a, b) == \A i \in DOMAIN FlagNames : a[FlagNames[i]] = b[FlagNames[i]]

(***************************************************************************)
(* C1.  PostgreSQL batch insert is atomic: when a row of the batch cannot  *)
(* be inserted (its id is already in the table or earlier in the batch, or *)
(* its columnName is missing) the call returns success false and the table *)
(* holds exactly the rows it held before; when the call returns success,   *)
(* every row of the batch is stored, and nothing else changed.             *)
(***************************************************************************)
\* Row i of the batch is one the table cannot take.
BatchRowMustFail(i) ==
  LET c == last.columns[i] IN
    \/ c.columnName = Undefined
    \/ c.id # Undefined /\ c.id \in RowIds(last.before.rows)
    \/ c.id # Undefined /\ \E j \in 1..(i - 1) : last.columns[j].id = c.id

\* Row i of the batch is in the table under a new id.
BatchRowStored(i) ==
  LET c == last.columns[i] IN
    \E r \in table.rows \ last.before.rows :
      /\ c.id # Undefined => r.id = c.id
      /\ r.column_name = c.columnName
      /\ SameText(r.description, c.description)
      /\ SameText(r.ndmo_classification, c.ndmoClassification)
      /\ \A k \in DOMAIN FlagNames : r[FlagNames[k]] = c[FlagNames[k]]

C1_BatchAtomic ==
  (last.op = "batch" /\ last.dbType = "postgres") =>
    /\ (\E i \in DOMAIN last.columns : BatchRowMustFail(i))
         => ~last.res.success
    /\ ~last.res.success => table = last.before
    /\ last.res.success =>
         /\ last.before.rows \subseteq table.rows
         /\ Cardinality(table.rows) =
              Cardinality(last.before.rows) + Len(last.columns)
         /\ \A i \in DOMAIN last.columns : BatchRowStored(i)

\* A batch whose first row was accepted and whose second row failed.
C1_Witness ==
  /\ last.op = "batch" /\ last.dbType = "postgres" /\ engine = "postgres"
  /\ Len(last.columns) = 2
  /\ ~last.res.success
  /\ Reconciled(last.before)
  /\ ~BatchRowMustFail(1)
  /\ BatchRowMustFail(2)
  /\ table = last.before

(***************************************************************************)
(* C2.  Flag round trip: after a successful insert of a record, a fetch    *)
(* succeeds and returns a record of the stored id whose five flags are the *)
(* ones written, for PostgreSQL (native booleans) and Oracle (0/1) and for *)
(* every combination of the flags.                                         *)
(***************************************************************************)
C2_FlagRoundTrip ==
  (last.op = "insert" /\ last.res.success) =>
    \A out \in Fetched(table, last.url) :
      /\ out.res.success
      /\ \E rec \in Records(out) :
           rec.id = InsertedId /\ SameFlags(rec, last.columns[1])
      /\ \A rec \in Records(out) :
           rec.id = InsertedId => SameFlags(rec, last.columns[1])

\* An Oracle insert of a record with some flags set and some not succeeded.
C2_Witness ==
  /\ last.op = "insert" /\ last.res.success /\ engine = "oracle"
  /\ last.columns[1].pci /\ ~last.columns[1].psi /\ last.columns[1].pii
  /\ \E r \in table.rows : r.id = InsertedId /\ r.pci = 1 /\ r.psi = 0

(***************************************************************************)
(* C3.  For a connection string whose detected type is neither postgres    *)
(* nor oracle (hive, unknown, the empty string) every data operation of    *)
(* the router returns success false with a "not supported for database     *)
(* type" message and makes no connection attempt.                          *)
(***************************************************************************)
C3_UnsupportedNoIo ==
  (last.op \in DataOps /\ detectDbType(last.url) \notin {"postgres", "oracle"}) =>
    /\ ~last.res.success
    /\ includes(last.res.message,
                <<"not", "supported", "for", "database", "type:">>)
    /\ last.io = 0
    /\ table = last.before

\* An insert through a hive connection string was refused.
C3_Witness ==
  /\ last.op = "insert" /\ last.url = URL_hive
  /\ ~last.res.success /\ last.io = 0

(***************************************************************************)
(* C4.  The server-side detector follows the rules in priority order:      *)
(* (a) prefix "postgres" in any letter case gives postgres; (b) otherwise  *)
(* a string that starts with "oracle:" or contains "@" together with "sid" *)
(* or "service_name" in any letter case gives oracle; (c) otherwise prefix *)
(* "jdbc:hive2" in any letter case gives hive; (d) otherwise unknown.      *)
(***************************************************************************)
RuleTag(url) ==
  LET lower == toLowerCase(url) IN
    IF startsWith(lower, toLowerCase(STR_postgres)) THEN "postgres"
    ELSE IF \/ startsWith(lower, toLowerCase(STR_oracle))
            \/ /\ includes(lower, STR_at)
               /\ \/ includes(lower, toLowerCase(STR_SID))
                  \/ includes(lower, toLowerCase(STR_SERVICE_NAME))
         THEN "oracle"
    ELSE IF startsWith(lower, toLowerCase(STR_hive)) THEN "hive"
    ELSE "unknown"

C4_DetectorRules ==
  last.op \in DataOps => last.dbType = RuleTag(last.url)

(***************************************************************************)
(* C5.  After a successful test-connection against a table an older        *)
(* version left, the table has no uniqueness constraint on column_name,    *)
(* has a pci column whose default is false, and holds every row it held    *)
(* before with the values of its other columns unchanged.                  *)
(***************************************************************************)
FalseIn(e) == IF e = "postgres" THEN FALSE ELSE 0

C5_Reconciles ==
  (last.op = "test" /\ last.res.success /\ last.before.exists) =>
    /\ table.exists
    /\ ~table.uniqueName
    /\ "pci" \in table.columns
    /\ table.defaults["pci"] = FalseIn(engine)
    /\ Cardinality(table.rows) = Cardinality(last.before.rows)
    /\ \A r \in last.before.rows :
         \E q \in table.rows : \A k \in DOMAIN r : q[k] = r[k]

\* A table with the constraint, without pci and with a row was reconciled.
C5_Witness ==
  /\ last.op = "test" /\ last.res.success
  /\ last.before.exists /\ last.before.uniqueName
  /\ "pci" \notin last.before.columns
  /\ last.before.rows # {}
  /\ \A q \in table.rows : q.pci = FalseIn(engine)

(***************************************************************************)
(* C6.  Test-connection is idempotent: run a second time right after a     *)
(* successful run with the same arguments, it returns success and leaves   *)
(* the schema (columns, defaults, constraint, trigger) and the rows as the *)
(* first run left them.                                                    *)
(***************************************************************************)
C6_TestIdempotent ==
  (last.op = "test" /\ last.prevTest = <<last.url, last.dbType>>) =>
    /\ last.res.success
    /\ table = last.before

\* A second run on a table the first run created or changed.
C6_Witness ==
  /\ last.op = "test" /\ last.prevTest = <<last.url, last.dbType>>
  /\ last.res.success
  /\ table.exists /\ table = last.before

(***************************************************************************)
(* C7.  update-by-id on an id that is not in the table returns success     *)
(* false with a "not found" message and leaves the rows unchanged, for the *)
(* PostgreSQL and the Oracle adapter.                                      *)
(***************************************************************************)
C7_UpdateNotFound ==
  (/\ last.op = "update"
   /\ Reconciled(last.before)
   /\ last.columns[1].id \notin RowIds(last.before.rows)) =>
    /\ ~last.res.success
    /\ includes(last.res.message, <<"not", "found">>)
    /\ table.rows = last.before.rows

(***************************************************************************)
(* C8.  update-by-id on an existing id returns success, and a fetch        *)
(* afterwards returns that row with the supplied description,              *)
(* ndmoClassification, reason and flags, its id and columnName unchanged,  *)
(* and every other row unchanged, for both dialects.                       *)
(***************************************************************************)
\* The record of id in the fetch result out.
FetchedRecord(out, id) == CHOOSE rec \in Records(out) : rec.id = id

C8_UpdateStores ==
  (/\ last.op = "update"
   /\ Reconciled(last.before)
   /\ last.columns[1].id \in RowIds(last.before.rows)) =>
    /\ last.res.success
    /\ \A out \in Fetched(table, last.url) :
         \A was \in Fetched(last.before, last.url) :
           /\ out.res.success
           /\ \A rec \in Records(out) :
                IF rec.id = last.columns[1].id
                THEN /\ SameText(rec.description, last.columns[1].description)
                     /\ SameText(rec.ndmoClassification,
                                 last.columns[1].ndmoClassification)
                     /\ SameText(rec.reason_ndmo, last.columns[1].reason_ndmo)
                     /\ SameFlags(rec, last.columns[1])
                     /\ rec.columnName = FetchedRecord(was, rec.id).columnName
                ELSE rec \in Records(was)
           /\ {rec.id : rec \in Records(out)} = {rec.id : rec \in Records(was)}

(***************************************************************************)
(* C9.  The record a successful insert-one or update-by-id returns in data *)
(* is the stored record: it has the id, and its columnName, description,   *)
(* ndmoClassification, reason and flags are the values a fetch afterwards  *)
(* returns for that id, for both dialects.                                 *)
(***************************************************************************)
ReturnedId ==
  IF last.op = "insert" THEN InsertedId ELSE last.columns[1].id

C9_ReturnsStored ==
  (last.op \in {"insert", "update"} /\ last.res.success) =>
    /\ Len(last.res.data) = 1
    /\ JsGet(last.res.data[1], "id") = ReturnedId
    /\ \A out \in Fetched(table, last.url) :
         /\ out.res.success
         /\ \A k \in TextFields :
              SameText(JsGet(last.res.data[1], k),
                       FetchedRecord(out, ReturnedId)[k])
         /\ SameFlags(last.res.data[1], FetchedRecord(out, ReturnedId))

(***************************************************************************)
(* C10.  After any sequence of insert-one, batch-insert and update-by-id,  *)
(* every row has a non-null id, a non-null columnName and a defined        *)
(* ndmoClassification ("Public" when the record written carried none).     *)
(***************************************************************************)
C10_RowsDefined ==
  (last.op \in {"insert", "batch", "update"} /\ last.res.success) =>
    \A r \in table.rows :
      /\ r.id # NULL
      /\ r.column_name # NULL
      /\ r.ndmo_classification # NULL
      /\ \A i \in DOMAIN last.columns :
           (r \notin last.before.rows
              /\ last.columns[i].id = r.id
              /\ last.columns[i].ndmoClassification = Undefined)
             => r.ndmo_classification = "Public"

(***************************************************************************)
(* C11.  Every function of the persistence router completes with a result  *)
(* envelope carrying a boolean success, whatever the input and whatever    *)
(* fails in the database (unparseable Oracle URL, failed connect, failed   *)
(* ROLLBACK after a failed batch row, failure while closing): no call      *)
(* throws to its caller.                                                   *)
(***************************************************************************)
C11_NeverThrows ==
  last.op # "none" => (~conn.threw /\ last.res.success \in BOOLEAN)

(***************************************************************************)
(* C12.  When a request of the page (fetch, update, delete, delete-all,    *)
(* batch-insert) fails because the database cannot be reached, nothing     *)
(* changes: the table is as before, and so is the list of the page once    *)
(* the handler has dealt with the response.                                *)
(***************************************************************************)
C12_UnreachableNoChange ==
  \A i \in DOMAIN page.calls :
    (~page.calls[i].up /\ page.calls[i].op \in DataOps) =>
      /\ ~page.calls[i].ok
      /\ ~page.calls[i].tableChanged
      /\ ~page.calls[i].listChanged

Succeeded(run) == {i \in DOMAIN run.names : run.settled[i] = "ok"}
Expected(run) == {Filled(run.ids[i], run.names[i]) : i \in Succeeded(run)}
ListSet(list) == {list[i] : i \in DOMAIN list}
AsFetched(e, row) ==
  IF e = "postgres" THEN pgFetchRow(row) ELSE mapOracleRowToColumnData(row)
Persisted(p) ==
  /\ Len(p.calls) > 0
  /\ p.calls[1].op = "batch"
  /\ p.calls[1].ok

C14_PartialSuccess ==
  [][(page.run.active /\ page'.op = "classify") =>
       /\ page'.reported = Cardinality(Succeeded(page.run))
       /\ page'.outOf = Len(page.run.names)
       /\ IF Persisted(page')
          THEN /\ table.rows \subseteq table'.rows
               /\ {AsFetched(engine, r) : r \in table'.rows \ table.rows}
                    = Expected(page.run)
               /\ Cardinality(table'.rows \ table.rows)
                    = Cardinality(Succeeded(page.run))
          ELSE /\ table'.rows = table.rows
               /\ ListSet(page'.columns)
                    = ListSet(page.columns) \cup Expected(page.run)
               /\ Len(page'.columns)
                    = Len(page.columns) + Cardinality(Succeeded(page.run))]_vars

C14_Witness ==
  /\ page.op = "classify"
  /\ page.outOf = 2
  /\ page.reported = 1
  /\ Persisted(page)

(***************************************************************************)
(* C15.  Whenever classify-column answers success, the classification it   *)
(* carries has a description, an ndmoClassification that is one of Top     *)
(* Secret, Secret, Restricted and Public, a reason, and the five flags     *)
(* pii, phi, pfi, psi and pci as booleans.                                 *)
(***************************************************************************)
C15_ClassificationComplete ==
  (last.op = "classify" /\ last.res.success) =>
    LET c == last.res.data.classification IN
      /\ "description" \in DOMAIN c
      /\ "ndmoClassification" \in DOMAIN c
      /\ c.ndmoClassification \in ndmoClassificationOptions
      /\ "reason_ndmo" \in DOMAIN c
      /\ \A k \in FlagSet : k \in DOMAIN c /\ c[k] \in BOOLEAN

(***************************************************************************)
(* C16.  Each way the classification fails is reported: when the endpoint  *)
(* of the model cannot be reached, answers with a status that is not a     *)
(* success, returns no content, returns text from which no JSON can be     *)
(* parsed, or returns JSON that fails the schema, classify-column answers  *)
(* success false with a message that belongs to that failure and to no     *)
(* other, and with no classification.                                      *)
(***************************************************************************)
FailureModes == {"unreachable", "status", "empty", "unparseable", "schema"}

\* What the message of each failure says.
ModePhrases(mode) ==
  IF mode = "unreachable" THEN {<<"fetch", "failed">>}
  ELSE IF mode = "status" THEN {<<"Groq", "API", "error:">>}
  ELSE IF mode = "empty" THEN {<<"No", "content", "returned">>}
  ELSE IF mode = "unparseable"
  THEN {<<"non-JSON", "output:">>, <<"Failed", "to", "parse", "JSON">>,
        <<"Unexpected", "token">>}
  ELSE {<<"Invalid", "response", "format">>}

Says(message, mode) == \E p \in ModePhrases(mode) : includes(message, p)

C16_FailuresReported ==
  (/\ last.op = "classify"
   /\ last.provider = "groq"
   /\ last.columnName # ""
   /\ last.reply.mode \in FailureModes) =>
    /\ ~last.res.success
    /\ last.status = 500
    /\ "data" \notin DOMAIN last.res
    /\ Says(last.res.message, last.reply.mode)
    /\ \A other \in FailureModes \ {last.reply.mode} :
         ~Says(last.res.message, other)

\* An object without one of its flags was refused.
C16_Witness ==
  /\ last.op = "classify"
  /\ last.provider = "groq"
  /\ last.columnName = "a"
  /\ last.reply.mode = "schema"
  /\ last.reply.kind = "http"
  /\ last.reply.content =
       <<FenceJson, LBrace>> \o WithoutMember(ValidMembers("Secret"), "pci")
         \o <<RBrace, Fence>>
  /\ ~last.res.success
  /\ Says(last.res.message, "schema")

(***************************************************************************)
(* C17.  Retry safety: after an update-by-id, a delete-by-id, a delete-all *)
(* or a test-connection, the same call issued again leaves the table as    *)
(* the first call left it; after an insert that succeeded with an id the   *)
(* client supplied, the same insert issued again is rejected and the table *)
(* is as the first insert left it.                                         *)
(***************************************************************************)
\* What the last call would do if it were issued again now.
Retried ==
  IF last.op = "update"
  THEN updateColumnDataLogic(engine, table, last.url, last.columns[1])
  ELSE IF last.op = "delete"
  THEN deleteColumnDataLogic(engine, table, last.url, last.id)
  ELSE IF last.op = "deleteAll"
  THEN deleteAllColumnsLogic(engine, table, last.url)
  ELSE IF last.op = "test"
  THEN testConnectionLogic(engine, table, last.url, last.dbType)
  ELSE insertColumnDataLogic(engine, table, last.url, last.columns[1])

C17_RetrySafe ==
  /\ last.op \in {"update", "delete", "deleteAll", "test"} =>
       Retried.table = table
  /\ (/\ last.op = "insert"
      /\ last.res.success
      /\ last.columns[1].id # Undefined) =>
       /\ ~Retried.res.success
       /\ Retried.table = table

\* An insert with an id of the client's stored its row.
C17_Witness ==
  /\ last.op = "insert"
  /\ last.res.success
  /\ last.columns[1].id = "i1"
  /\ "i1" \in RowIds(table.rows)
  /\ "i1" \notin RowIds(last.before.rows)
  /\ ~Retried.res.success

(***************************************************************************)
(* C18.  The Oracle batch insert isolates the failure of a row: when a row *)
(* of the batch cannot be inserted, every other row of the batch that the  *)
(* table can take is stored all the same (the PostgreSQL batch discards    *)
(* the whole batch instead).                                               *)
(***************************************************************************)
\* Row i of the batch is in the table, and was not before.
OracleRowStored(i) ==
  LET c == last.columns[i] IN
    \E r \in table.rows \ last.before.rows :
      /\ c.id # Undefined => r.id = c.id
      /\ r.column_name = c.columnName

C18_OracleBatchIsolates ==
  (/\ last.op = "batch"
   /\ last.dbType = "oracle"
   /\ Reconciled(last.before)
   /\ \E i \in DOMAIN last.columns : BatchRowMustFail(i)) =>
    \A i \in DOMAIN last.columns :
      ~BatchRowMustFail(i) => OracleRowStored(i)

(***************************************************************************)
(* C19.  Duplicate names are permitted: on a table that test-connection    *)
(* has reconciled and that holds a row of some columnName, the insert of a *)
(* record (with all its text fields) of the same columnName and another id *)
(* succeeds, for both dialects, and both rows are in the table afterwards. *)
(***************************************************************************)
\* The last call inserted a record with every text field, whose name a row
\* of another id bears.
SecondOfName ==
  /\ last.op = "insert"
  /\ \A k \in TextFields : last.columns[1][k] # Undefined
  /\ Reconciled(last.before)
  /\ ~last.before.uniqueName
  /\ last.columns[1].id \notin RowIds(last.before.rows)
  /\ \E r \in last.before.rows : r.column_name = last.columns[1].columnName

DeleteResponse ==
  apiHandler("delete", last.url, last.before,
             Outcome(table, last.res, last.io), FALSE)

C20_DeleteExactlyOne ==
  (last.op = "delete" /\ last.before.exists) =>
    IF last.id \in RowIds(last.before.rows)
    THEN /\ last.res.success
         /\ table.rows = {r \in last.before.rows : r.id # last.id}
         /\ Cardinality(table.rows) = Cardinality(last.before.rows) - 1
         /\ DeleteResponse.status = 200
    ELSE /\ ~last.res.success
         /\ includes(last.res.message, <<"not", "found">>)
         /\ table = last.before
         /\ DeleteResponse.status = 404
         /\ DeleteResponse.body = last.res

\* A delete of an id that no row of the table has.
C20_Witness ==
  /\ last.op = "delete"
  /\ last.before.exists
  /\ last.before.rows # {}
  /\ last.id \notin RowIds(last.before.rows)
  /\ DeleteResponse.status = 404

GivenUnder(row, headers) ==
  SelectSeq(headers, LAMBDA h : h \in DOMAIN row /\ row[h] # <<>>)

Given(row, headers) == GivenUnder(row, headers) # <<>>
TextOf(row, headers) == row[Head(GivenUnder(row, headers))]

NameHeaders == <<"Column Name", "column_name", "columnName">>

\* The cell texts that read true.
TrueTexts ==
  {<<"y","e","s">>, <<" ","Y","E","S"," ">>, <<"T","r","u","e">>, <<"1">>,
   <<"t","r","u","e">>, <<"Y","e","s">>}

FlagHeaders(k) ==
  IF k = "pii" THEN <<"PII", "pii">>
  ELSE IF k = "phi" THEN <<"PHI", "phi">>
  ELSE IF k = "pfi" THEN <<"PFI", "pfi">>
  ELSE IF k = "psi" THEN <<"PSI", "psi">>
  ELSE <<"PCI", "pci">>

\* rec is the record of row.
RecordOf(rec, row) ==
  /\ rec.columnName = Join(trim(TextOf(row, NameHeaders)))
  /\ Given(row, <<"ID", "id">>) => rec.id = Join(TextOf(row, <<"ID", "id">>))
  /\ \A k \in FlagSet :
       rec[k] = (/\ Given(row, FlagHeaders(k))
                 /\ TextOf(row, FlagHeaders(k)) \in TrueTexts)
  /\ rec.ndmoClassification =
       (IF Given(row, <<"NDMO Classification", "ndmo_classification">>)
        THEN Join(TextOf(row, <<"NDMO Classification", "ndmo_classification">>))
        ELSE "Public")
  /\ rec.description =
       (IF Given(row, <<"Description", "description">>)
        THEN Join(TextOf(row, <<"Description", "description">>))
        ELSE "")

C22_CsvImport ==
  last.op = "csv" =>
    LET rows == last.columns
        named == {i \in DOMAIN rows : Given(rows[i], NameHeaders)}
    IN /\ Len(page.columns) = Cardinality(named)
       /\ \A i \in named :
            \E j \in DOMAIN page.columns : RecordOf(page.columns[j], rows[i])
       /\ \A j \in DOMAIN page.columns :
            \E i \in named : RecordOf(page.columns[j], rows[i])

\* A file with the row "Column Name": " a ", "PII": " YES ".
C22_Witness ==
  /\ last.op = "csv"
  /\ last.columns = <<[h \in {"Column Name", "PII"} |->
                         IF h = "PII" THEN <<" ","Y","E","S"," ">>
                         ELSE <<" ", "a", " ">>]>>
  /\ Len(page.columns) = 1
  /\ page.columns[1].columnName = "a"
  /\ page.columns[1].pii
  /\ ~page.columns[1].pci
  /\ page.columns[1].ndmoClassification = "Public"
  /\ page.columns[1].description = ""

(***************************************************************************)
(* C23.  The list of the page and the table stay in sync: while the page   *)
(* is connected, after a write that succeeded (the sync of a               *)
(* classification or of a CSV import, an update, a delete, a delete-all)   *)
(* and the fetch after it, where there is one, the list holds exactly the  *)
(* records of the table, each with the id and the field values a fetch     *)
(* returns for it.                                                         *)
(***************************************************************************)
PageWrites == {"update", "delete", "deleteAll", "csv", "classify"}

\* The records a fetch of the table returns.
TableRecords == {AsColumn(AsFetched(engine, r)) : r \in table.rows}

InSync ==
  /\ {AsColumn(page.columns[i]) : i \in DOMAIN page.columns} = TableRecords
  /\ Len(page.columns) = Cardinality(table.rows)

C23_ListMatchesTable ==
  (/\ page.op \in PageWrites
   /\ Connected
   /\ Len(page.calls) > 0
   /\ \A i \in DOMAIN page.calls : page.calls[i].ok) => InSync

(***************************************************************************)
(* C24.  The detector of the database type is total: for every connection  *)
(* string, the empty one included, the detector of the router and the      *)
(* detector of the page each return one of postgres, oracle, hive and      *)
(* unknown; the empty string gives unknown; and the router works with the  *)
(* tag its detector returned.                                              *)
(***************************************************************************)
C24_DetectorTotal ==
  last.op # "none" =>
    /\ detectDbType(last.url) \in DbTypes
    /\ clientDetectDbType(last.url) \in DbTypes
    /\ last.dbType \in DbTypes
    /\ last.url = URL_empty =>
         /\ detectDbType(last.url) = "unknown"
         /\ clientDetectDbType(last.url) = "unknown"
         /\ last.dbType = "unknown"

\* A fetch with the empty connection string.
C24_Witness ==
  /\ last.op = "fetch"
  /\ last.url = URL_empty
  /\ last.dbType = "unknown"
  /\ ~last.res.success

(***************************************************************************)
(* C25.  An edit of the grid changes the edited field only: while the page *)
(* is connected, an edit of the description of a record leaves every other *)
(* field of the record, ndmoClassification and reason included, as it was, *)
(* in the table and in the list of the page; so does every sequence of     *)
(* such edits.                                                             *)
(***************************************************************************)
EditedFields == UNION {DOMAIN updatedData : updatedData \in Patches}

\* The name of a property of the record as a column of the table.
ColumnOf(k) ==
  IF k = "columnName" THEN "column_name"
  ELSE IF k = "ndmoClassification" THEN "ndmo_classification"
  ELSE k

C25_EditFrame ==
  [][(page'.op = "update" /\ Connected) =>
       /\ \A r \in table.rows : \A q \in table'.rows :
            r.id = q.id =>
              \A k \in ColumnKeys \ EditedFields :
                ColumnOf(k) \in DOMAIN r => q[ColumnOf(k)] = r[ColumnOf(k)]
       /\ \A i \in DOMAIN page.columns : \A j \in DOMAIN page'.columns :
            page.columns[i].id = page'.columns[j].id =>
              \A k \in ColumnKeys \ EditedFields :
                JsGet(page'.columns[j], k) = JsGet(page.columns[i], k)]_vars

(***************************************************************************)
(* handleUpdateColumn step by step.  The handler is async: it builds the   *)
(* record to send from the list of its render and sends it, the API        *)
(* handles the request, and the handler deals with the response.  A second *)
(* edit can start while the first is awaiting its response.  page.calls    *)
(* holds the edits that were started: the record each one sent, how far it *)
(* has got and the response to it.                                         *)
(***************************************************************************)
MaxEdits == 2

EditPatches == {[description |-> "e"], [reason_ndmo |-> "s"]}

NoResponse == [status |-> 0, body |-> Result(FALSE, <<>>, <<>>)]

IsEdit(c) == c.op = "edit"
Edits == SelectSeq(page.calls, IsEdit)
EditsSettled == \A i \in DOMAIN Edits : Edits[i].stage = "done"

\* const newFullData = { ...columnToUpdate, ...updatedData }; fetch(...) is
\* called with the URL and the record in its body.
EditIssue(id, updatedData) ==
  /\ Connected
  /\ id \in ListIds(page.columns)
  /\ Len(Edits) < MaxEdits
  /\ UNCHANGED <<engine, table, last, conn>>
  /\ LET newFullData == Spread(FirstWithId(page.columns, id), updatedData)
     IN page' = Done("edit", page.columns,
                     Append(Edits,
                            [op |-> "edit", id |-> id,
                             updatedData |-> updatedData,
                             dbUrl |-> page.dbUrl,
                             column |-> AsColumn(newFullData),
                             stage |-> "sent", resp |-> NoResponse]))

\* The API handles the request of the edit.
EditServe(i, up) ==
  /\ i \in DOMAIN Edits
  /\ Edits[i].stage = "sent"
  /\ UNCHANGED <<engine, last, conn>>
  /\ LET call == Edits[i]
         resp == apiHandler("update", call.dbUrl, table,
                            updateColumnDataLogic(ReachUp(up), table,
                                                  call.dbUrl, call.column),
                            FALSE)
     IN /\ table' = resp.table
        /\ page' = Done("edit", page.columns,
                        [Edits EXCEPT ![i].stage = "answered",
                                      ![i].resp = [status |-> resp.status,
                                                   body |-> resp.body]])

\* The handler after await fetch(...): on success setColumns((prevColumns)
\* => prevColumns.map(col => col.id === id ? result.data : col).sort(...)).
EditSettle(i) ==
  /\ i \in DOMAIN Edits
  /\ Edits[i].stage = "answered"
  /\ UNCHANGED <<engine, table, last, conn>>
  /\ LET call == Edits[i]
         resp == call.resp
         replaced == [j \in DOMAIN page.columns |->
                        IF page.columns[j].id = call.id
                        THEN resp.body.data[1]
                        ELSE page.columns[j]]
         list == IF HttpOk(resp.status) /\ resp.body.success
                    /\ Len(resp.body.data) > 0
                 THEN sortByName(replaced) ELSE page.columns
     IN page' = Done("edit", list, [Edits EXCEPT ![i].stage = "done"])

InitEdits == InitPage

NextEdits ==
  \/ \E url \in PageUrls : EditsSettled /\ PageSetUrl(url)
  \/ \E upTest, upFetch \in BOOLEAN :
       EditsSettled /\ PageConnect(upTest, TRUE, upFetch)
  \/ \E id \in ClientIds, updatedData \in EditPatches :
       EditIssue(id, updatedData)
  \/ \E i \in 1..MaxEdits, up \in BOOLEAN : EditServe(i, up)
  \/ \E i \in 1..MaxEdits : EditSettle(i)

SpecEdits == InitEdits /\ [][NextEdits]_vars

(***************************************************************************)
(* C26.  No update is lost between two edits: when two edits of different  *)
(* fields of the same record were started while the page was connected,    *)
(* and both calls have completed with success, the row of the table and    *)
(* the record of the list hold both new values, in whatever order the two  *)
(* requests were handled and the two responses dealt with.                 *)
(***************************************************************************)
EditOk(call) ==
  /\ call.stage = "done"
  /\ HttpOk(call.resp.status)
  /\ call.resp.body.success

BothEdited(i, j) ==
  /\ i # j
  /\ EditOk(Edits[i])
  /\ EditOk(Edits[j])
  /\ Edits[i].id = Edits[j].id
  /\ DOMAIN Edits[i].updatedData \cap DOMAIN Edits[j].updatedData = {}

HoldsEdit(call) ==
  /\ \A r \in table.rows :
       r.id = call.id =>
         \A k \in DOMAIN call.updatedData :
           r[ColumnOf(k)] = call.updatedData[k]
  /\ \A n \in DOMAIN page.columns :
       page.columns[n].id = call.id =>
         \A k \in DOMAIN call.updatedData :
           JsGet(page.columns[n], k) = call.updatedData[k]

C26_NoLostUpdate ==
  \A i \in DOMAIN Edits : \A j \in DOMAIN Edits :
    BothEdited(i, j) => HoldsEdit(Edits[i]) /\ HoldsEdit(Edits[j])

(***************************************************************************)
(* handleTestConnection step by step.  The handler reads the URL of its    *)
(* render into currentUrl, sets the status to connecting and awaits the    *)
(* test; the URL field stays editable meanwhile.  last holds the test: the *)
(* URL and the type it was sent with, the list of the render, and, once it *)
(* has been answered, the result.                                          *)
(***************************************************************************)
\* onChange of the URL field; the other state of the page is kept.
ConnectEditUrl(url) ==
  /\ url # page.dbUrl
  /\ page' = [page EXCEPT
                !.op = "setUrl",
                !.dbUrl = url,
                !.status = IF page.status \notin {"idle", "connecting"}
                           THEN "idle" ELSE @]
  /\ UNCHANGED <<engine, table, last, conn>>

\* From the click to await fetch("/api/db/test-connection", ...).
ConnectStart ==
  /\ page.status # "connecting"
  /\ UNCHANGED <<engine, table, conn>>
  /\ LET currentUrl == page.dbUrl IN
     IF Len(currentUrl) = 0
     THEN /\ page' = [Done("connect", page.columns, <<>>) EXCEPT
                        !.status = "error"]
          /\ UNCHANGED last
     ELSE /\ page' = [Done("connect", page.columns, <<>>) EXCEPT
                        !.status = "connecting"]
          /\ last' = [last EXCEPT
                        !.op = "test", !.url = currentUrl,
                        !.dbType = ClientDetectTable[currentUrl],
                        !.columns = page.columns,
                        !.res = Result(FALSE, <<>>, <<>>)]

\* Mutant of StatusAfterTest: a test that fails leaves the status as it is.
StatusAfterTest_errorNotSet(test) ==
  IF HttpOk(test.status) /\ test.body.success THEN "connected"
  ELSE "connecting"

\* The status the handler sets once the test is answered.
StatusAfterTest(test) ==
  IF HttpOk(test.status) /\ test.body.success THEN "connected" ELSE "error"

\* From the response of the test to the end of the handler.
ConnectFinish(upTest, upSync, upFetch) ==
  /\ page.status = "connecting"
  /\ last.op = "test"
  /\ UNCHANGED <<engine, conn>>
  /\ LET url == last.url
         test == apiHandler("test", url, table,
                            testConnectionLogic(ReachUp(upTest), table, url,
                                                last.dbType), FALSE)
         sync == apiHandler("batch", url, test.table,
                            batchInsertColumnDataLogic(
                              ReachUp(upSync), test.table, url,
                              AsColumns(last.columns)), FALSE)
         synced == IF Len(last.columns) > 0 THEN sync.table ELSE test.table
     IN /\ last' = [last EXCEPT !.res = test.body]
        /\ IF StatusAfterTest(test) # "connected"
           THEN /\ page' = [Done("connect", page.columns, <<>>) EXCEPT
                              !.status = StatusAfterTest(test)]
                /\ table' = test.table
           ELSE IF last.dbType \notin Dialects
           THEN /\ page' = [Done("connect", <<>>, <<>>) EXCEPT
                              !.status = "connected"]
                /\ table' = test.table
           ELSE \E order \in Orders(synced.rows) :
                  LET resp == apiHandler("fetch", url, synced,
                                         fetchColumnDataLogic(
                                           ReachUp(upFetch), synced, url,
                                           order), FALSE)
                  IN /\ page' = [Done("connect", fetchAndSetColumns(resp),
                                      <<>>)
                                   EXCEPT !.status = "connected"]
                     /\ table' = resp.table

InitConnect == InitPage

NextConnect ==
  \/ \E url \in PageUrls : ConnectEditUrl(url)
  \/ ConnectStart
  \/ \E upTest, upSync, upFetch \in BOOLEAN :
       ConnectFinish(upTest, upSync, upFetch)

SpecConnect == InitConnect /\ [][NextConnect]_vars

(***************************************************************************)
(* C27.  Whenever the status is connected, the URL the page holds is the   *)
(* URL of the test that succeeded last, also when the URL field was edited *)
(* while the test was awaited.                                             *)
(***************************************************************************)
C27_ConnectedUrlTested ==
  page.status = "connected" =>
    /\ last.op = "test"
    /\ last.res.success
    /\ page.dbUrl = last.url

(***************************************************************************)
(* C28.  Connecting drops no record of the list: when the test of          *)
(* handleTestConnection succeeds while the list holds records that are not *)
(* in the table, each of them is, once the handler has finished (the sync  *)
(* of the list, then the fetch), a row of the table or still a record of   *)
(* the list, also when the sync fails and is rolled back.                  *)
(***************************************************************************)
LocalOnly == {id \in ListIds(page.columns) : id \notin RowIds(table.rows)}

C28_ConnectKeepsRecords ==
  [][(page'.op = "connect" /\ page'.status = "connected"
        /\ page.status # "connected") =>
       \A id \in LocalOnly :
         id \in RowIds(table'.rows) \/ id \in ListIds(page'.columns)]_vars

(***************************************************************************)
(* The operations as the page calls them: the test is sent with the type   *)
(* the detector of the page gave for the URL (body { dbUrl, dbType }), and *)
(* every other operation is sent with the URL alone, its type being        *)
(* detected on the server.                                                 *)
(***************************************************************************)
TagUrls ==
  {URL_pg, URL_pg_upper, URL_ora, URL_ora_sid, URL_ora_sid_lower,
   URL_ora_service, URL_at, URL_hive}

NextTags ==
  \/ \E url \in TagUrls : TestConnection(url, ClientDetectTable[url])
  \/ \E url \in TagUrls : Fetch(url)
  \/ \E url \in TagUrls : Insert(url, Filled("i1", "a"))
  \/ \E url \in TagUrls : BatchInsert(url, <<Bare(Undefined, "b")>>)
  \/ \E url \in TagUrls : Update(url, Filled("i1", "a"))
  \/ \E url \in TagUrls, id \in ClientIds : Delete(url, id)

SpecTags == Init /\ [][NextTags]_vars

(***************************************************************************)
(* C29.  The page and the server agree on the dialect: the detector of the *)
(* page and the detector of the server give the same tag for the           *)
(* connection string, so that a fetch, insert, batch insert, update or     *)
(* delete that follows a successful test of the same connection string is  *)
(* never answered that the operation is not supported for the database     *)
(* type.                                                                   *)
(***************************************************************************)
AfterTestOf(url) ==
  /\ Len(last.prevTest) > 0
  /\ last.prevTest[1] = url

SaysNotSupported(message) ==
  includes(message, <<"not", "supported", "for", "database", "type:">>)

C29_DialectAgreed ==
  last.op # "none" =>
    /\ clientDetectDbType(last.url) = detectDbType(last.url)
    /\ (last.op \in DataOps /\ AfterTestOf(last.url)) =>
         ~SaysNotSupported(last.res.message)

(***************************************************************************)
(* The page with its requests in flight: the test of a connection and the  *)
(* requests of a classification run are awaited while the user goes on.    *)
(* Every request that was sent settles: the response of the test is dealt  *)
(* with, each request of a run settles, and the run is finished once all   *)
(* of its requests have settled.                                           *)
(***************************************************************************)
ConnectSettles ==
  \E upTest, upSync, upFetch \in BOOLEAN :
    ConnectFinish(upTest, upSync, upFetch)

ClassifySettles ==
  \E i \in 1..MaxNames, classified \in BOOLEAN : ClassifySettle(i, classified)

ClassifyFinishes ==
  \E upSync, upFetch \in BOOLEAN : ClassifyFinish(upSync, upFetch)

\* A run of two names, so that one can be classified and the other not.
LiveBatches == {<<"a", "b">>}

\* The page is opened against a PostgreSQL database without the table.
InitLive == InitClassify /\ engine = "postgres" /\ table = NoTable

NextLive ==
  \/ \E url \in UrlsTo(engine) : ConnectEditUrl(url)
  \/ ConnectStart
  \/ ConnectSettles
  \/ \E columnNames \in LiveBatches : ClassifyStart(columnNames)
  \/ ClassifySettles
  \/ ClassifyFinishes

SpecLive ==
  /\ InitLive
  /\ [][NextLive]_vars
  /\ WF_vars(ConnectSettles)
  /\ WF_vars(ClassifySettles)
  /\ WF_vars(ClassifyFinishes)

(***************************************************************************)
(* C30.  No state of progress lasts for ever: when every request that was  *)
(* sent settles, the status connecting is always followed by connected or  *)
(* error, and isClassifying, once a run has set it, always returns to      *)
(* false with the progress back at 0, whatever the outcomes of the         *)
(* classification, the sync and the fetch.                                 *)
(***************************************************************************)
C30_ProgressEnds ==
  /\ (page.status = "connecting") ~> (page.status \in {"connected", "error"})
  /\ page.isClassifying ~> (~page.isClassifying /\ page.progress = 0)

\* A run has ended while the page was connected, with a request of the run
\* that failed.
C30_Witness ==
  /\ page.op = "classify"
  /\ page.status = "connected"
  /\ ~page.isClassifying
  /\ page.progress = 0
  /\ page.reported < page.outOf
====
